---- MODULE Spec2Model ----
(***************************************************************************)
(* A model of the headless core of the node-graph editor: the identifier  *)
(* generator (core/id.ts), the graph operations (core/graph.ts), the       *)
(* snapshot serialization (core/serialize.ts) and the two command          *)
(* histories (the command-entry history and core/history.ts with           *)
(* core/commands.ts).                                                      *)
(*                                                                         *)
(* Strings are sequences of one-character strings, so that building an id  *)
(* (gen_id) and taking it apart again (track_id) are computed as the code  *)
(* computes them.  Graph objects live in a heap and are named by their     *)
(* index in it: `===` on graphs is equality of references, and a Map       *)
(* mutation changes the heap cell it is applied to.  Numbers are integers. *)
(***************************************************************************)
EXTENDS Integers, Sequences, FiniteSets, TLC

VARIABLES
    heap,       \* the Graph objects allocated so far: ref -> [nodes, edges]
    counters,   \* core/id.ts `counters`: prefix -> last issued counter
    graph,      \* the reference the caller of the graph operations holds
    last,       \* the last call made: its operation, arguments and outcome
    hist,       \* the History_state the caller of the command-entry history holds
    cstate,     \* the Command_state the caller of the snapshot history holds
    created_edge_id,    \* the closure variable of each command object
    log,        \* the calls made on the history, oldest first
    store,      \* the selection objects, Sets and arrays allocated and kept
    selection,  \* the reference of the selection the caller holds
    arrays,     \* the reference of the arrays the caller took, NoRef for none
    drag_ref,           \* Graph_node_layer drag_ref.current: the node drag in progress
    connection_ref,     \* Graph_node_layer connection_ref.current: the connection in progress
    hover_port_ref,     \* Graph_node_layer hover_port_ref.current: the target the layer recorded
    preview_ref,        \* Graph_node_layer preview_ref.current: the preview last published
    listeners_ref,      \* Graph_node_layer listeners_ref.current: the listeners on pointer_host
    emitted,            \* the callbacks the layer has called, oldest first
    event,              \* the pointer event the layer handled last
    hovered             \* the ports a pointer is over: entered and not left

vars ==
    <<heap, counters, graph, last, hist, cstate, created_edge_id, log,
      store, selection, arrays,
      drag_ref, connection_ref, hover_port_ref, preview_ref, listeners_ref, emitted,
      event, hovered>>

\* What the node layer holds, and the pointers around it.
lvars ==
    <<drag_ref, connection_ref, hover_port_ref, preview_ref, listeners_ref, emitted,
      event, hovered>>

\* What the selection model holds.
svars == <<store, selection, arrays>>

\* What the history and its commands hold.
hvars == <<hist, cstate, created_edge_id, log>>

(***************************************************************************)
(* Bounds of the model.                                                    *)
(***************************************************************************)
MaxGraphs == 4      \* graph objects allocated in one run of the graph operations
MaxCounter == 3     \* calls of gen_id made directly by the caller stop here
MaxIssued == 4      \* ids a caller that logs them takes between two resets
MaxSteps == 5       \* calls made on a history in one run
MaxLimit == 2       \* the largest limit a snapshot history is created with

(***************************************************************************)
(* Values of the host language.                                            *)
(***************************************************************************)
\* `undefined` where a string is expected (no sequence of characters).
Undefined == <<"undefined">>
\* `undefined` where a number is expected.
NoNumber == 0 - 1
\* No graph returned: the call threw.
NoRef == 0

\* The digits of Number.prototype.toString(36), and of parseInt(_, 36).
Digits36 ==
    <<"0", "1", "2", "3", "4", "5", "6", "7", "8", "9", "a", "b", "c", "d",
      "e", "f", "g", "h", "i", "j", "k", "l", "m", "n", "o", "p", "q", "r",
      "s", "t", "u", "v", "w", "x", "y", "z">>

IsDigit36(ch) == \E i \in DOMAIN Digits36 : Digits36[i] = ch

DigitValue(ch) == (CHOOSE i \in DOMAIN Digits36 : Digits36[i] = ch) - 1

\* n.toString(radix) for an integer n and a radix up to 36.
RECURSIVE to_string(_, _)
to_string(n, radix) ==
    IF n < 0 THEN <<"-">> \o to_string(0 - n, radix)
    ELSE IF n < radix THEN <<Digits36[n + 1]>>
    ELSE to_string(n \div radix, radix) \o <<Digits36[(n % radix) + 1]>>

\* The longest prefix of raw made of base-36 digits.
RECURSIVE digit_prefix(_)
digit_prefix(raw) ==
    IF raw = <<>> \/ ~IsDigit36(Head(raw)) THEN <<>>
    ELSE <<Head(raw)>> \o digit_prefix(Tail(raw))

RECURSIVE digits_value(_)
digits_value(ds) ==
    IF ds = <<>> THEN 0
    ELSE digits_value(SubSeq(ds, 1, Len(ds) - 1)) * 36 + DigitValue(ds[Len(ds)])

\* parseInt(raw, 36): an optional sign, then the longest run of digits; NaN
\* when there is no digit.  (White space and upper case are not in the
\* alphabet of the model.)
parse_int(raw) ==
    LET neg == raw # <<>> /\ Head(raw) = "-"
        body == IF neg THEN Tail(raw) ELSE raw
        ds == digit_prefix(body)
    IN  IF ds = <<>> THEN [nan |-> TRUE, value |-> 0]
        ELSE [nan |-> FALSE,
              value |-> IF neg THEN 0 - digits_value(ds) ELSE digits_value(ds)]

(***************************************************************************)
(* Identifier generator (core/id.ts).  `counters` is a Map: a function     *)
(* whose domain is the set of prefixes that have an entry.                 *)
(***************************************************************************)
\* counters.get(prefix) ?? 0
counter_of(c, prefix) == IF prefix \in DOMAIN c THEN c[prefix] ELSE 0

\* A plausible slip: one counter for all prefixes.
counter_set_all(c, prefix, value) == [p \in DOMAIN c \cup {prefix} |-> value]

\* counters.set(prefix, value)
counter_set(c, prefix, value) ==
    [p \in DOMAIN c \cup {prefix} |-> IF p = prefix THEN value ELSE c[p]]

format_id(prefix, counter) == prefix \o <<"_">> \o to_string(counter, 36)

\* A plausible slip: the counter is stored but the old one is formatted.
gen_id_stale(c, prefix) ==
    LET counter == counter_of(c, prefix) + 1
    IN  [counters |-> counter_set(c, prefix, counter),
         id |-> format_id(prefix, counter - 1)]

gen_id(c, prefix) ==
    LET counter == counter_of(c, prefix) + 1
    IN  [counters |-> counter_set(c, prefix, counter),
         id |-> format_id(prefix, counter)]

\* A plausible slip: the counter is formatted as it stands.
peek_id_current(c, prefix) == format_id(prefix, counter_of(c, prefix))

peek_id(c, prefix) == format_id(prefix, counter_of(c, prefix) + 1)

\* A seed is a sequence of <<prefix, value>> entries (Object.entries order).
RECURSIVE set_entries(_, _)
set_entries(c, seed) ==
    IF seed = <<>> THEN c
    ELSE set_entries(counter_set(c, seed[1][1], seed[1][2]), Tail(seed))

EmptyMap == [p \in {} |-> 0]

reset_ids(seed) == set_entries(EmptyMap, seed)

\* A plausible slip: the seed value is stored whatever the counter is.
prime_entry_sets(c, prefix, value) == counter_set(c, prefix, value)

prime_entry(c, prefix, value) ==
    IF value > counter_of(c, prefix) THEN counter_set(c, prefix, value) ELSE c

RECURSIVE prime_ids(_, _)
prime_ids(c, seed) ==
    IF seed = <<>> THEN c
    ELSE prime_ids(prime_entry(c, seed[1][1], seed[1][2]), Tail(seed))

(***************************************************************************)
(* Maps of the graph (core/types.ts Graph): a Map keeps its keys in        *)
(* insertion order, so it is a sequence of values, each keyed by its id.   *)
(***************************************************************************)
map_has(m, id) == \E i \in DOMAIN m : m[i].id = id

map_index(m, id) == CHOOSE i \in DOMAIN m : m[i].id = id

map_get(m, id) == m[map_index(m, id)]

\* Map.set: an existing key keeps its place, a new key goes last.
map_set(m, value) ==
    IF map_has(m, value.id) THEN [m EXCEPT ![map_index(m, value.id)] = value]
    ELSE Append(m, value)

map_delete(m, id) == SelectSeq(m, LAMBDA v : v.id # id)

\* Map.keys(): the keys in insertion order.
map_keys(m) == [i \in DOMAIN m |-> m[i].id]

create_graph == [nodes |-> <<>>, edges |-> <<>>]

\* The outcome of a graph operation: the heap and the counters after it, the
\* reference returned (NoRef when it threw) and the error thrown.
Returned(h, c, ref) == [heap |-> h, counters |-> c, out |-> ref, err |-> "none"]

Thrown(h, c, error) == [heap |-> h, counters |-> c, out |-> NoRef, err |-> error]

\* A plausible slip: the "copy" is the graph itself.
clone_graph_alias(h, ref) == [heap |-> h, ref |-> ref]

\* clone_graph: a new Graph object holding copies of both Maps.
clone_graph(h, ref) == [heap |-> Append(h, h[ref]), ref |-> Len(h) + 1]

nodes_set(h, ref, node) == [h EXCEPT ![ref].nodes = map_set(@, node)]

nodes_delete(h, ref, node_id) == [h EXCEPT ![ref].nodes = map_delete(@, node_id)]

edges_set(h, ref, edge) == [h EXCEPT ![ref].edges = map_set(@, edge)]

edges_delete(h, ref, edge_id) == [h EXCEPT ![ref].edges = map_delete(@, edge_id)]

(***************************************************************************)
(* normalize_node and find_port.                                           *)
(***************************************************************************)
\* The id port number i (1-based here, index i - 1 in the code) resolves to.
resolved_port_id(node, i) ==
    IF node.ports[i].id = Undefined
    THEN node.id \o <<"_", "p", "o", "r", "t", "_">> \o to_string(i - 1, 10)
    ELSE node.ports[i].id

\* A plausible slip: the spread of the port given wins over node_id and index.
normalize_port_as_given(node, i) ==
    [id |-> resolved_port_id(node, i),
     node_id |-> node.ports[i].node_id,
     side |-> node.ports[i].side,
     kind |-> node.ports[i].kind,
     index |-> node.ports[i].index]

normalize_port(node, i) ==
    [id |-> resolved_port_id(node, i),
     node_id |-> node.id,
     side |-> node.ports[i].side,
     kind |-> node.ports[i].kind,
     index |-> IF node.ports[i].index = NoNumber THEN i - 1 ELSE node.ports[i].index]

\* normalize_node throws when a port's id was seen on an earlier port.
has_duplicate_port(node) ==
    \E i, j \in DOMAIN node.ports :
        i < j /\ resolved_port_id(node, i) = resolved_port_id(node, j)

normalize_node(node) ==
    [node EXCEPT !.ports = [i \in DOMAIN node.ports |-> normalize_port(node, i)]]

\* node.ports.find(port => port.id === port_id): its place, 0 for undefined.
find_port(node, port_id) ==
    IF \E i \in DOMAIN node.ports : node.ports[i].id = port_id
    THEN CHOOSE i \in DOMAIN node.ports :
            /\ node.ports[i].id = port_id
            /\ \A j \in DOMAIN node.ports : node.ports[j].id = port_id => i <= j
    ELSE 0

(***************************************************************************)
(* Graph operations (core/graph.ts).  Each takes the heap h, the counters  *)
(* c and the reference of the graph it is called on.                       *)
(***************************************************************************)
add_node(h, c, ref, node) ==
    IF map_has(h[ref].nodes, node.id) THEN Thrown(h, c, "DuplicateNode")
    ELSE IF has_duplicate_port(node) THEN Thrown(h, c, "DuplicatePort")
    ELSE LET next == clone_graph(h, ref)
         IN  Returned(nodes_set(next.heap, next.ref, normalize_node(node)), c, next.ref)

update_node(h, c, ref, node) ==
    IF ~map_has(h[ref].nodes, node.id) THEN Thrown(h, c, "UnknownNode")
    ELSE IF has_duplicate_port(node) THEN Thrown(h, c, "DuplicatePort")
    ELSE LET next == clone_graph(h, ref)
         IN  Returned(nodes_set(next.heap, next.ref, normalize_node(node)), c, next.ref)

\* A plausible slip: the cascade looks at the from endpoint only.
edge_touches_from_only(edge, node_id) == edge.from.node_id = node_id

\* The test of remove_node's loop over next.edges.
edge_touches(edge, node_id) ==
    edge.from.node_id = node_id \/ edge.to.node_id = node_id

\* The loop of remove_node: the edges of next, in Map order from place i on;
\* deleting the entry being visited does not disturb the iteration.
RECURSIVE remove_touching(_, _, _, _)
remove_touching(h, next, node_id, todo) ==
    IF todo = <<>> THEN h
    ELSE remove_touching(
            IF edge_touches(Head(todo), node_id)
            THEN edges_delete(h, next, Head(todo).id)
            ELSE h,
            next, node_id, Tail(todo))

\* A plausible slip: the node goes and its edges stay.
remove_node_keeps_edges(h, c, ref, node_id) ==
    IF ~map_has(h[ref].nodes, node_id) THEN Returned(h, c, ref)
    ELSE LET next == clone_graph(h, ref)
         IN  Returned(nodes_delete(next.heap, next.ref, node_id), c, next.ref)

remove_node(h, c, ref, node_id) ==
    IF ~map_has(h[ref].nodes, node_id) THEN Returned(h, c, ref)
    ELSE LET next == clone_graph(h, ref)
             h1 == nodes_delete(next.heap, next.ref, node_id)
         IN  Returned(remove_touching(h1, next.ref, node_id, h1[next.ref].edges),
                      c, next.ref)

\* The loop of move_nodes over node_ids: the heap and the `mutated` flag.
RECURSIVE move_each(_, _, _, _, _, _)
move_each(h, next, node_ids, dx, dy, mutated) ==
    IF node_ids = <<>> THEN [heap |-> h, mutated |-> mutated]
    ELSE IF ~map_has(h[next].nodes, Head(node_ids))
         THEN move_each(h, next, Tail(node_ids), dx, dy, mutated)
         ELSE LET existing == map_get(h[next].nodes, Head(node_ids))
                  moved == [existing EXCEPT !.x = existing.x + dx,
                                            !.y = existing.y + dy]
              IN  move_each(nodes_set(h, next, moved), next, Tail(node_ids),
                            dx, dy, TRUE)

move_nodes(h, c, ref, node_ids, dx, dy) ==
    IF dx = 0 /\ dy = 0 THEN Returned(h, c, ref)
    ELSE LET next == clone_graph(h, ref)
             done == move_each(next.heap, next.ref, node_ids, dx, dy, FALSE)
         IN  Returned(done.heap, c, IF done.mutated THEN next.ref ELSE ref)

set_node_position(h, c, ref, node_id, x, y) ==
    IF ~map_has(h[ref].nodes, node_id) THEN Thrown(h, c, "UnknownNode")
    ELSE LET existing == map_get(h[ref].nodes, node_id)
         IN  IF existing.x = x /\ existing.y = y THEN Returned(h, c, ref)
             ELSE LET next == clone_graph(h, ref)
                  IN  Returned(
                        nodes_set(next.heap, next.ref,
                                  [existing EXCEPT !.x = x, !.y = y]),
                        c, next.ref)

\* A plausible slip: only the from port's kind is looked at.
wrong_direction_from_only(from_port, to_port) == from_port.kind = "in"

\* The two direction checks of connect: "Cannot connect from an input port"
\* and "Cannot connect to an output port".
wrong_direction(from_port, to_port) ==
    IF from_port.kind = "in" THEN TRUE ELSE to_port.kind = "out"

\* A plausible slip: the copy is made although there is nothing to remove.
remove_edge_eager(h, c, ref, edge_id) ==
    LET next == clone_graph(h, ref)
    IN  Returned(edges_delete(next.heap, next.ref, edge_id), c, next.ref)

\* connect, from the point where both ports are found: the direction checks,
\* the edge id, the duplicate check and the insertion.
connect_ports(h, c, ref, input, from_port, to_port) ==
    IF wrong_direction(from_port, to_port) THEN Thrown(h, c, "InvalidPortDirection")
    ELSE LET issued == IF input.id = Undefined THEN gen_id(c, <<"e">>)
                       ELSE [counters |-> c, id |-> input.id]
         IN  IF map_has(h[ref].edges, issued.id)
             THEN Thrown(h, issued.counters, "DuplicateEdge")
             ELSE LET next == clone_graph(h, ref)
                      edge == [id |-> issued.id,
                               from |-> [node_id |-> input.from.node_id,
                                         port_id |-> input.from.port_id],
                               to |-> [node_id |-> input.to.node_id,
                                       port_id |-> input.to.port_id]]
                  IN  Returned(edges_set(next.heap, next.ref, edge),
                               issued.counters, next.ref)

connect(h, c, ref, input) ==
    IF ~map_has(h[ref].nodes, input.from.node_id) THEN Thrown(h, c, "UnknownNode")
    ELSE IF ~map_has(h[ref].nodes, input.to.node_id) THEN Thrown(h, c, "UnknownNode")
    ELSE LET from_node == map_get(h[ref].nodes, input.from.node_id)
             to_node == map_get(h[ref].nodes, input.to.node_id)
             from_port == find_port(from_node, input.from.port_id)
             to_port == find_port(to_node, input.to.port_id)
         IN  IF from_port = 0 THEN Thrown(h, c, "UnknownPort")
             ELSE IF to_port = 0 THEN Thrown(h, c, "UnknownPort")
             ELSE connect_ports(h, c, ref, input,
                                from_node.ports[from_port], to_node.ports[to_port])

remove_edge(h, c, ref, edge_id) ==
    IF ~map_has(h[ref].edges, edge_id) THEN Returned(h, c, ref)
    ELSE LET next == clone_graph(h, ref)
         IN  Returned(edges_delete(next.heap, next.ref, edge_id), c, next.ref)

disconnect(h, c, ref, edge_id) == remove_edge(h, c, ref, edge_id)

(***************************************************************************)
(* Serialization (core/serialize.ts).  A snapshot is a plain value:        *)
(* [nodes, edges], two sequences.                                          *)
(***************************************************************************)
\* { ...node, ports: node.ports.map(port => ({ ...port })) }
clone_node(node) ==
    [node EXCEPT !.ports = [i \in DOMAIN node.ports |-> node.ports[i]]]

\* { ...edge, from: { ...edge.from }, to: { ...edge.to } }
clone_edge(edge) ==
    [edge EXCEPT !.from = [node_id |-> edge.from.node_id, port_id |-> edge.from.port_id],
                 !.to = [node_id |-> edge.to.node_id, port_id |-> edge.to.port_id]]

serialize_graph(h, ref) ==
    [nodes |-> [i \in DOMAIN h[ref].nodes |-> clone_node(h[ref].nodes[i])],
     edges |-> [i \in DOMAIN h[ref].edges |-> clone_edge(h[ref].edges[i])]]

\* id.lastIndexOf('_'), counted from 1 here: 0 when there is none.
last_index_of_underscore(id) ==
    IF \E i \in DOMAIN id : id[i] = "_"
    THEN CHOOSE i \in DOMAIN id :
            id[i] = "_" /\ \A j \in DOMAIN id : id[j] = "_" => j <= i
    ELSE 0

\* Names every object inherits from Object.prototype: `seed[prefix]` on the
\* plain object `seed` finds them when seed has no entry of its own.
ObjectPrototypeKeys ==
    {<<"c", "o", "n", "s", "t", "r", "u", "c", "t", "o", "r">>,
     <<"t", "o", "S", "t", "r", "i", "n", "g">>,
     <<"v", "a", "l", "u", "e", "O", "f">>}

seed_has(seed, prefix) == \E i \in DOMAIN seed : seed[i][1] = prefix

seed_get(seed, prefix) == seed[CHOOSE i \in DOMAIN seed : seed[i][1] = prefix][2]

\* seed[prefix] = value: a new key goes last.
seed_set(seed, prefix, value) ==
    IF seed_has(seed, prefix)
    THEN [i \in DOMAIN seed |->
            IF seed[i][1] = prefix THEN <<prefix, value>> ELSE seed[i]]
    ELSE Append(seed, <<prefix, value>>)

\* The first early return of track_id, on the 0-based place of the separator.
skips_id(id) ==
    LET separator == last_index_of_underscore(id) - 1
    IN  separator <= 0 \/ separator = Len(id) - 1

track_id(seed, id) ==
    IF skips_id(id) THEN seed
    ELSE LET separator == last_index_of_underscore(id)
             prefix == SubSeq(id, 1, separator - 1)
             parsed == parse_int(SubSeq(id, separator + 1, Len(id)))
         IN  IF parsed.nan THEN seed
             ELSE IF seed_has(seed, prefix)
                  \* !current || value > current
                  THEN IF seed_get(seed, prefix) = 0
                          \/ parsed.value > seed_get(seed, prefix)
                       THEN seed_set(seed, prefix, parsed.value)
                       ELSE seed
                  \* an inherited member is truthy and compares false
                  ELSE IF prefix \in ObjectPrototypeKeys THEN seed
                  ELSE seed_set(seed, prefix, parsed.value)

RECURSIVE track_ids(_, _)
track_ids(seed, items) ==
    IF items = <<>> THEN seed
    ELSE track_ids(track_id(seed, Head(items).id), Tail(items))

RECURSIVE add_nodes(_, _, _, _)
add_nodes(h, c, ref, nodes) ==
    IF nodes = <<>> THEN Returned(h, c, ref)
    ELSE LET r == add_node(h, c, ref, clone_node(Head(nodes)))
         IN  IF r.err # "none" THEN r
             ELSE add_nodes(r.heap, r.counters, r.out, Tail(nodes))

\* A plausible slip: the edges are connected again without their ids, so
\* that each gets a generated one.
RECURSIVE connect_edges_fresh_ids(_, _, _, _)
connect_edges_fresh_ids(h, c, ref, edges) ==
    IF edges = <<>> THEN Returned(h, c, ref)
    ELSE LET r == connect(h, c, ref,
                          [from |-> Head(edges).from, to |-> Head(edges).to,
                           id |-> Undefined])
         IN  IF r.err # "none" THEN r
             ELSE connect_edges_fresh_ids(r.heap, r.counters, r.out, Tail(edges))

RECURSIVE connect_edges(_, _, _, _)
connect_edges(h, c, ref, edges) ==
    IF edges = <<>> THEN Returned(h, c, ref)
    ELSE LET r == connect(h, c, ref,
                          [from |-> Head(edges).from, to |-> Head(edges).to,
                           id |-> Head(edges).id])
         IN  IF r.err # "none" THEN r
             ELSE connect_edges(r.heap, r.counters, r.out, Tail(edges))

deserialize_graph(h, c, serialized) ==
    LET seed == track_ids(track_ids(<<>>, serialized.nodes), serialized.edges)
        primed == IF seed # <<>> THEN prime_ids(c, seed) ELSE c
        created == Append(h, create_graph)
        added == add_nodes(created, primed, Len(created), serialized.nodes)
    IN  IF added.err # "none" THEN Thrown(h, primed, added.err)
        ELSE LET connected ==
                    connect_edges(added.heap, added.counters, added.out,
                                  serialized.edges)
             IN  IF connected.err # "none"
                 THEN Thrown(h, connected.counters, connected.err)
                 ELSE connected

(***************************************************************************)
(* The inputs the calls are made with.                                     *)
(***************************************************************************)
id_a == <<"a">>
id_b == <<"b">>
id_c == <<"c">>
id_d == <<"d">>
id_a_out == <<"a", "_", "o", "u", "t">>
id_a_in == <<"a", "_", "i", "n">>
id_b_port_0 == <<"b", "_", "p", "o", "r", "t", "_", "0">>
id_b_port_1 == <<"b", "_", "p", "o", "r", "t", "_", "1">>
id_e_1 == <<"e", "_", "1">>
id_e_2 == <<"e", "_", "2">>
id_x == <<"x">>

PortInput(id, side, kind, index) ==
    [id |-> id, node_id |-> Undefined, side |-> side, kind |-> kind, index |-> index]

NodeInput(id, ports) == [id |-> id, type |-> "test", x |-> 0, y |-> 0, ports |-> ports]

node_a ==
    NodeInput(id_a, <<PortInput(id_a_out, "right", "out", 0),
                      PortInput(id_a_in, "left", "in", 0)>>)

\* Ports without ids: they resolve to b_port_0 and b_port_1.
node_b ==
    NodeInput(id_b, <<PortInput(Undefined, "left", "in", NoNumber),
                      PortInput(Undefined, "right", "out", 0)>>)

\* An explicit id equal to the id the first port is given.
node_b_clash ==
    NodeInput(id_b, <<PortInput(Undefined, "left", "in", NoNumber),
                      PortInput(id_b_port_0, "right", "out", NoNumber)>>)

\* Node a without its in port, moved.
node_a_trimmed ==
    [NodeInput(id_a, <<PortInput(id_a_out, "top", "out", 0)>>) EXCEPT !.x = 1]

\* A port without id that names another node and carries an index, and a
\* port with an id and no index.
node_d ==
    NodeInput(id_d, <<[PortInput(Undefined, "left", "in", 2) EXCEPT !.node_id = id_a],
                      PortInput(id_x, "right", "out", NoNumber)>>)

AddNodeInputs == {node_a, node_b, node_b_clash, node_d}

UpdateNodeInputs == {node_a_trimmed, node_b_clash}

NodeIdInputs == {id_a, id_b, id_c}

NodeIdLists == {<<id_a>>, <<id_c>>, <<id_a, id_c, id_a>>}

Deltas == {<<0, 0>>, <<1, 0>>, <<0, 0 - 1>>}

Positions == {<<0, 0>>, <<1, 0>>}

Endpoint(node_id, port_id) == [node_id |-> node_id, port_id |-> port_id]

ConnectInput(from, to, id) == [from |-> from, to |-> to, id |-> id]

\* Endpoints that name a port of a or b, and endpoints that name no node or
\* no port of the node.
FromInputs ==
    {Endpoint(id_a, id_a_out), Endpoint(id_a, id_a_in), Endpoint(id_b, id_b_port_1)}

ToInputs ==
    {Endpoint(id_a, id_a_in), Endpoint(id_a, id_a_out), Endpoint(id_b, id_b_port_0)}

EdgeIdInputs == {id_e_1, id_x}

ConnectInputs ==
    {ConnectInput(f, t, i) :
        f \in FromInputs, t \in ToInputs, i \in {Undefined} \cup EdgeIdInputs}
    \cup {ConnectInput(Endpoint(id_c, id_a_out), Endpoint(id_a, id_a_in), Undefined),
          ConnectInput(Endpoint(id_a, id_a_out), Endpoint(id_c, id_a_in), Undefined),
          ConnectInput(Endpoint(id_a, id_b_port_1), Endpoint(id_a, id_a_in), id_x),
          ConnectInput(Endpoint(id_a, id_a_in), Endpoint(id_a, id_b_port_0), Undefined),
          ConnectInput(Endpoint(id_a, id_a_in), Endpoint(id_c, id_a_in), id_x)}

EmptySnapshot == [nodes |-> <<>>, edges |-> <<>>]

EdgeInput(id, from, to) == [id |-> id, from |-> from, to |-> to]

\* Node b with an edge from its out port to its in port.
snapshot_b ==
    [nodes |-> <<node_b>>,
     edges |-> <<EdgeInput(id_x, Endpoint(id_b, id_b_port_1),
                           Endpoint(id_b, id_b_port_0))>>]

Documents == {EmptySnapshot, snapshot_b}

(***************************************************************************)
(* Commands (core/commands.ts).  A command object is named by its place in *)
(* `Commands`; `created_edge_id` holds, per command object, the variable   *)
(* of that name its connect closure keeps between calls.                   *)
(***************************************************************************)
\* `null`.
Null == <<"null">>

id_noop == <<"n", "o", "o", "p">>

create_add_node_command(node) == [type |-> "add_node", payload |-> node]

create_move_nodes_command(node_ids, dx, dy) ==
    [type |-> "move_nodes", payload |-> [node_ids |-> node_ids, dx |-> dx, dy |-> dy]]

create_connect_command(input) == [type |-> "connect", payload |-> input]

create_disconnect_command(edge_id) == [type |-> "disconnect", payload |-> edge_id]

\* A command of the caller's own: do returns the graph it is given, and a
\* result; it has no undo.
create_noop_command(result) == [type |-> "noop", payload |-> result]

\* The command objects the caller has built.
Commands ==
    <<create_add_node_command(node_a),
      create_move_nodes_command(<<id_a, id_c, id_a>>, 1, 0),
      create_connect_command(
          ConnectInput(Endpoint(id_b, id_b_port_1), Endpoint(id_b, id_b_port_0),
                       Undefined)),
      create_connect_command(
          ConnectInput(Endpoint(id_a, id_a_out), Endpoint(id_a, id_a_in), id_x)),
      create_disconnect_command(id_x),
      create_noop_command(id_noop)>>

\* `input.id ?? null` of each connect command at its creation.
created_at_creation ==
    [k \in DOMAIN Commands |->
        IF Commands[k].type = "connect" /\ Commands[k].payload.id # Undefined
        THEN Commands[k].payload.id
        ELSE Null]

\* `!created_edge_id`: null and the empty string are falsy.
is_falsy(id) == id = Null \/ id = <<>>

\* The outcome of a command's do or undo: as of a graph operation, with the
\* closure variables after it and the result.
Done(r, created, result) ==
    [heap |-> r.heap, counters |-> r.counters, created |-> created,
     out |-> r.out, err |-> r.err, result |-> result]

\* The loop of the connect command's do over next.edges.keys(): the first
\* key that was not a key before, Null when there is none.
RECURSIVE first_candidate(_, _)
first_candidate(keys, before) ==
    IF keys = <<>> THEN Null
    ELSE IF Head(keys) \notin before THEN Head(keys)
    ELSE first_candidate(Tail(keys), before)

\* do of the connect command k, once connect has returned `next`: found is
\* created_edge_id after the loop.
connect_command_found(created, k, next, found) ==
    IF is_falsy(found)
    THEN Done(Thrown(next.heap, next.counters, "FailedEdgeId"), created, Undefined)
    ELSE Done(next, [created EXCEPT ![k] = found], found)

\* do of the connect command k from the call of connect on: before is the
\* set of the keys of graph.edges, next the outcome of connect.
connect_command_next(created, k, before, next) ==
    IF next.err # "none" THEN Done(next, created, Undefined)
    ELSE connect_command_found(created, k, next,
            IF is_falsy(created[k])
            THEN first_candidate(map_keys(next.heap[next.out].edges), before)
            ELSE created[k])

\* do of the connect command k.
connect_command_do(h, c, created, ref, k) ==
    connect_command_next(created, k,
        {map_keys(h[ref].edges)[i] : i \in DOMAIN h[ref].edges},
        connect(h, c, ref, Commands[k].payload))

\* command.do(graph) of the command object k.
command_do(h, c, created, ref, k) ==
    LET command == Commands[k]
    IN  CASE command.type = "add_node" ->
                Done(add_node(h, c, ref, command.payload), created, command.payload)
          [] command.type = "move_nodes" ->
                Done(move_nodes(h, c, ref, command.payload.node_ids,
                                command.payload.dx, command.payload.dy),
                     created, Undefined)
          [] command.type = "connect" -> connect_command_do(h, c, created, ref, k)
          [] command.type = "disconnect" ->
                Done(remove_edge(h, c, ref, command.payload), created, Undefined)
          [] OTHER -> Done(Returned(h, c, ref), created, command.payload)

\* `entry.command.undo` is defined.
has_undo(k) == Commands[k].type \in {"add_node", "move_nodes", "connect"}

\* command.undo(graph) of the command object k.
command_undo(h, c, created, ref, k) ==
    LET command == Commands[k]
    IN  CASE command.type = "add_node" -> remove_node(h, c, ref, command.payload.id)
          [] command.type = "move_nodes" ->
                move_nodes(h, c, ref, command.payload.node_ids,
                           0 - command.payload.dx, 0 - command.payload.dy)
          [] OTHER ->
                IF is_falsy(created[k]) THEN Returned(h, c, ref)
                ELSE remove_edge(h, c, ref, created[k])

(***************************************************************************)
(* The command-entry history (History_state, core/serialize.ts).  An entry *)
(* names its command object by its place in `Commands`.                    *)
(***************************************************************************)
create_history(initial_graph) ==
    [graph |-> initial_graph, undo_stack |-> <<>>, redo_stack |-> <<>>]

\* No History_state was built.
NoHistory == create_history(NoRef)

\* The outcome of execute_command: the heap, the counters and the closure
\* variables after the command's do, the history returned (the one given
\* when do threw) and the result returned.
Executed(done, history) ==
    [heap |-> done.heap, counters |-> done.counters, created |-> done.created,
     history |-> history, err |-> done.err, result |-> done.result]

\* A plausible slip: every execution counts as a mutation.
mutated_always(graph_after, graph_before) == TRUE

\* `graph_after !== graph_before`.
mutated(graph_after, graph_before) == graph_after # graph_before

\* execute_command once command.do has returned `done`.
execute_command_done(history, k, done) ==
    LET graph_before == history.graph
        graph_after == done.out
        entry == [command |-> k, graph_before |-> graph_before,
                  graph_after |-> graph_after, result |-> done.result]
    IN  IF done.err # "none" THEN Executed(done, history)
        ELSE IF ~mutated(graph_after, graph_before)
             THEN Executed(done, [graph |-> graph_after,
                                  undo_stack |-> history.undo_stack,
                                  redo_stack |-> history.redo_stack])
             ELSE Executed(done, [graph |-> graph_after,
                                  undo_stack |-> Append(history.undo_stack, entry),
                                  redo_stack |-> <<>>])

execute_command(h, c, created, history, k) ==
    execute_command_done(history, k, command_do(h, c, created, history.graph, k))

\* undo once previous_graph is known: the heap then, and the history returned.
undo_entry(history, entry, previous) ==
    [heap |-> previous.heap,
     history |-> [graph |-> previous.out,
                  undo_stack |-> SubSeq(history.undo_stack, 1,
                                        Len(history.undo_stack) - 1),
                  redo_stack |-> Append(history.redo_stack, entry)]]

\* `entry.command.undo ? entry.command.undo(history.graph) : entry.graph_before`
previous_graph(h, c, created, history, entry) ==
    IF has_undo(entry.command)
    THEN command_undo(h, c, created, history.graph, entry.command)
    ELSE Returned(h, c, entry.graph_before)

undo(h, c, created, history) ==
    IF Len(history.undo_stack) = 0 THEN [heap |-> h, history |-> history]
    ELSE undo_entry(history, history.undo_stack[Len(history.undo_stack)],
                    previous_graph(h, c, created, history,
                                   history.undo_stack[Len(history.undo_stack)]))

redo(history) ==
    IF Len(history.redo_stack) = 0 THEN history
    ELSE LET next_redo_stack ==
                 SubSeq(history.redo_stack, 1, Len(history.redo_stack) - 1)
             entry == history.redo_stack[Len(history.redo_stack)]
         IN  [graph |-> entry.graph_after,
              undo_stack |-> Append(history.undo_stack, entry),
              redo_stack |-> next_redo_stack]

can_undo(history) == Len(history.undo_stack) > 0

can_redo(history) == Len(history.redo_stack) > 0

(***************************************************************************)
(* The snapshot history (core/history.ts) and the Command_state built on   *)
(* it (core/commands.ts).  A History object is a value here: push, undo    *)
(* and redo return either the object given or one that differs from it in  *)
(* `present`, so `===` on histories is equality of values.                 *)
(***************************************************************************)
\* No History object: none was built, or create_history threw.
Unbuilt == [past |-> <<>>, present |-> NoRef, future |-> <<>>, limit |-> 0]

create_snapshot_history(initial, limit) ==
    IF limit <= 0 THEN Unbuilt
    ELSE [past |-> <<>>, present |-> initial, future |-> <<>>, limit |-> limit]

\* A plausible slip: the future survives a push.
push_keeps_future(history, g) ==
    IF history.present = g THEN history
    ELSE [past |-> Append(history.past, history.present), present |-> g,
          future |-> history.future, limit |-> history.limit]

\* A plausible slip: at capacity the newest past snapshot makes room.
push_drops_newest(history, g) ==
    IF history.present = g THEN history
    ELSE LET trimmed == IF Len(history.past) >= history.limit
                        THEN Append(SubSeq(history.past, 1, Len(history.past) - 1),
                                    history.present)
                        ELSE Append(history.past, history.present)
         IN  [past |-> trimmed, present |-> g, future |-> <<>>,
              limit |-> history.limit]

push(history, g) ==
    IF history.present = g THEN history
    ELSE LET trimmed == IF Len(history.past) >= history.limit
                        THEN Append(Tail(history.past), history.present)
                        ELSE Append(history.past, history.present)
         IN  [past |-> trimmed, present |-> g, future |-> <<>>,
              limit |-> history.limit]

undo_snapshot(history) ==
    IF Len(history.past) = 0 THEN history
    ELSE [past |-> SubSeq(history.past, 1, Len(history.past) - 1),
          present |-> history.past[Len(history.past)],
          future |-> <<history.present>> \o history.future,
          limit |-> history.limit]

\* A plausible slip: redo forgets the snapshot it leaves.
redo_snapshot_drops_present(history) ==
    IF Len(history.future) = 0 THEN history
    ELSE [past |-> history.past,
          present |-> history.future[1],
          future |-> Tail(history.future),
          limit |-> history.limit]

redo_snapshot(history) ==
    IF Len(history.future) = 0 THEN history
    ELSE [past |-> Append(history.past, history.present),
          present |-> history.future[1],
          future |-> Tail(history.future),
          limit |-> history.limit]

can_undo_snapshot(history) == Len(history.past) > 0

can_redo_snapshot(history) == Len(history.future) > 0

create_command_state(initial, limit) ==
    [history |-> create_snapshot_history(initial, limit)]

\* No Command_state was built.
NoState == [history |-> Unbuilt]

get_present_graph(state) == state.history.present

\* execute_command of core/commands.ts once command.do has returned `done`:
\* as Executed, with the state returned (the one given when do threw).
execute_command_state_done(state, done) ==
    [heap |-> done.heap, counters |-> done.counters, created |-> done.created,
     state |-> IF done.err # "none" THEN state
               ELSE IF push(state.history, done.out) = state.history THEN state
               ELSE [history |-> push(state.history, done.out)],
     err |-> done.err, result |-> done.result]

execute_command_state(h, c, created, state, k) ==
    execute_command_state_done(state,
        command_do(h, c, created, state.history.present, k))

undo_command(state) ==
    IF undo_snapshot(state.history) = state.history THEN state
    ELSE [history |-> undo_snapshot(state.history)]

redo_command(state) ==
    IF redo_snapshot(state.history) = state.history THEN state
    ELSE [history |-> redo_snapshot(state.history)]

can_undo_command(state) == can_undo_snapshot(state.history)

can_redo_command(state) == can_redo_snapshot(state.history)

(***************************************************************************)
(* The selection model (core/selection.ts).  Selection objects, the Sets   *)
(* they hold and the arrays handed out live in a store and are named by    *)
(* their index in it: a Set or an array is the sequence of its members in  *)
(* insertion order, a selection object holds the references of its two     *)
(* Sets.  Each operation takes the store st and returns the store after it *)
(* with the reference it returns.                                          *)
(***************************************************************************)
\* new Set(iterable), new Set() for no items, and [...set].
new_set(st, items) == [store |-> Append(st, items), out |-> Len(st) + 1]

set_has(st, ref, id) == \E i \in DOMAIN st[ref] : st[ref][i] = id

set_size(st, ref) == Len(st[ref])

\* set.add(id) and set.delete(id) on the Set at ref.
set_add(st, ref, id) ==
    IF set_has(st, ref, id) THEN st ELSE [st EXCEPT ![ref] = Append(@, id)]

set_delete(st, ref, id) == [st EXCEPT ![ref] = SelectSeq(@, LAMBDA v : v # id)]

\* The object literal { nodes, edges }.
new_selection(st, nodes, edges) ==
    [store |-> Append(st, [nodes |-> nodes, edges |-> edges]), out |-> Len(st) + 1]

\* An operation returns the object it was given.
same_selection(st, sel) == [store |-> st, out |-> sel]

\* { nodes: <set just built>, edges: new Set(items) }
with_new_edges(built, items) ==
    new_selection(new_set(built.store, items).store,
                  built.out, new_set(built.store, items).out)

\* { nodes: new Set(items), edges: <set just built> }
with_new_nodes(built, items) ==
    new_selection(new_set(built.store, items).store,
                  new_set(built.store, items).out, built.out)

create_selection(st) == with_new_edges(new_set(st, <<>>), <<>>)

clear_selection(st, sel) ==
    IF set_size(st, st[sel].nodes) = 0 /\ set_size(st, st[sel].edges) = 0
    THEN same_selection(st, sel)
    ELSE create_selection(st)

is_node_selected(st, sel, node_id) == set_has(st, st[sel].nodes, node_id)

is_edge_selected(st, sel, edge_id) == set_has(st, st[sel].edges, edge_id)

\* `options.append ?? false`
append_of(options) == IF options.append = "undefined" THEN "false" ELSE options.append

\* const s = new Set(items); s.add(id)
new_set_with(st, items, id) ==
    [store |-> set_add(new_set(st, items).store, new_set(st, items).out, id),
     out |-> new_set(st, items).out]

\* const s = new Set(items); s.delete(id)
new_set_without(st, items, id) ==
    [store |-> set_delete(new_set(st, items).store, new_set(st, items).out, id),
     out |-> new_set(st, items).out]

\* A plausible slip: the edges are carried over when the selection is replaced.
replace_by_node_keeps_edges(st, sel, node_id) ==
    with_new_edges(new_set_with(st, <<>>, node_id), st[st[sel].edges])

\* select_node without append.
replace_by_node(st, sel, node_id) ==
    IF /\ set_size(st, st[sel].nodes) = 1
       /\ set_has(st, st[sel].nodes, node_id)
       /\ set_size(st, st[sel].edges) = 0
    THEN same_selection(st, sel)
    ELSE with_new_edges(new_set_with(st, <<>>, node_id), <<>>)

\* A plausible slip: the other set is not copied over.
append_node_alone(st, sel, node_id) ==
    with_new_edges(new_set_with(st, st[st[sel].nodes], node_id), <<>>)

\* select_node with append.
append_node(st, sel, node_id) ==
    IF set_has(st, st[sel].nodes, node_id) THEN same_selection(st, sel)
    ELSE with_new_edges(new_set_with(st, st[st[sel].nodes], node_id),
                        st[st[sel].edges])

select_node(st, sel, node_id, options) ==
    IF append_of(options) = "true" THEN append_node(st, sel, node_id)
    ELSE replace_by_node(st, sel, node_id)

\* select_edge without append.
replace_by_edge(st, sel, edge_id) ==
    IF /\ set_size(st, st[sel].edges) = 1
       /\ set_has(st, st[sel].edges, edge_id)
       /\ set_size(st, st[sel].nodes) = 0
    THEN same_selection(st, sel)
    ELSE with_new_nodes(new_set_with(st, <<>>, edge_id), <<>>)

\* select_edge with append.
append_edge(st, sel, edge_id) ==
    IF set_has(st, st[sel].edges, edge_id) THEN same_selection(st, sel)
    ELSE with_new_nodes(new_set_with(st, st[st[sel].edges], edge_id),
                        st[st[sel].nodes])

select_edge(st, sel, edge_id, options) ==
    IF append_of(options) = "true" THEN append_edge(st, sel, edge_id)
    ELSE replace_by_edge(st, sel, edge_id)

\* A plausible slip: the edges are not copied over.
deselect_node_drops_edges(st, sel, node_id) ==
    IF ~set_has(st, st[sel].nodes, node_id) THEN same_selection(st, sel)
    ELSE with_new_edges(new_set_without(st, st[st[sel].nodes], node_id), <<>>)

deselect_node(st, sel, node_id) ==
    IF ~set_has(st, st[sel].nodes, node_id) THEN same_selection(st, sel)
    ELSE IF /\ set_size(new_set_without(st, st[st[sel].nodes], node_id).store,
                        new_set_without(st, st[st[sel].nodes], node_id).out) = 0
            /\ set_size(st, st[sel].edges) = 0
         THEN create_selection(new_set_without(st, st[st[sel].nodes], node_id).store)
         ELSE with_new_edges(new_set_without(st, st[st[sel].nodes], node_id),
                             st[st[sel].edges])

deselect_edge(st, sel, edge_id) ==
    IF ~set_has(st, st[sel].edges, edge_id) THEN same_selection(st, sel)
    ELSE IF /\ set_size(new_set_without(st, st[st[sel].edges], edge_id).store,
                        new_set_without(st, st[st[sel].edges], edge_id).out) = 0
            /\ set_size(st, st[sel].nodes) = 0
         THEN create_selection(new_set_without(st, st[st[sel].edges], edge_id).store)
         ELSE with_new_nodes(new_set_without(st, st[st[sel].edges], edge_id),
                             st[st[sel].nodes])

AppendOption == [append |-> "true"]

\* A plausible slip: the id is selected without append.
toggle_node_replaces(st, sel, node_id) ==
    IF set_has(st, st[sel].nodes, node_id) THEN deselect_node(st, sel, node_id)
    ELSE select_node(st, sel, node_id, [append |-> "undefined"])

toggle_node(st, sel, node_id) ==
    IF set_has(st, st[sel].nodes, node_id) THEN deselect_node(st, sel, node_id)
    ELSE select_node(st, sel, node_id, AppendOption)

toggle_edge(st, sel, edge_id) ==
    IF set_has(st, st[sel].edges, edge_id) THEN deselect_edge(st, sel, edge_id)
    ELSE select_edge(st, sel, edge_id, AppendOption)

\* A plausible slip: the edges are listed under both names.
to_selection_arrays_edges_twice(st, sel) ==
    with_new_edges(new_set(st, st[st[sel].edges]), st[st[sel].edges])

\* to_selection_arrays: the object { nodes: [...], edges: [...] }.
to_selection_arrays(st, sel) ==
    with_new_edges(new_set(st, st[st[sel].nodes]), st[st[sel].edges])

(***************************************************************************)
(* The caller of the graph operations: it holds one graph, calls an        *)
(* operation on it and keeps the graph returned; when the call throws it   *)
(* keeps the graph it had.  `last` records the call.                       *)
(***************************************************************************)
NoCall ==
    [op |-> "none", arg |-> <<>>, input |-> NoRef, given |-> create_graph,
     output |-> NoRef, err |-> "none", result |-> Undefined,
     peek |-> <<>>, counters |-> EmptyMap]

\* The record of a call on the graph held, and of a call of the id generator.
CallRecord(op, arg, r) ==
    [op |-> op, arg |-> arg, input |-> graph, given |-> heap[graph],
     output |-> r.out, err |-> r.err, result |-> Undefined,
     peek |-> peek_id(counters, <<"e">>), counters |-> counters]

IdCallRecord(op, arg, result) ==
    [op |-> op, arg |-> arg, input |-> graph, given |-> heap[graph],
     output |-> NoRef, err |-> "none", result |-> result,
     peek |-> peek_id(counters, <<"e">>), counters |-> counters]

Call(op, arg, r) ==
    /\ heap' = r.heap
    /\ counters' = r.counters
    /\ graph' = IF r.err = "none" THEN r.out ELSE graph
    /\ last' = CallRecord(op, arg, r)
    /\ UNCHANGED hvars /\ UNCHANGED lvars
    /\ UNCHANGED svars
\* The graph the caller starts with is an empty one or one loaded from a
\* stored document; only the graph loaded is kept.
Loaded(document) ==
    LET r == deserialize_graph(<<>>, EmptyMap, document)
    IN  [graph |-> r.heap[r.out], counters |-> r.counters]

\* No selection is in use.
NoSelection ==
    /\ store = <<>>
    /\ selection = NoRef
    /\ arrays = NoRef

\* A reference that holds nothing.
null == [null |-> TRUE]

\* No node layer is mounted.
NoLayer ==
    /\ drag_ref = null
    /\ connection_ref = null
    /\ hover_port_ref = null
    /\ preview_ref = null
    /\ listeners_ref = null
    /\ emitted = <<>>
    /\ event = null
    /\ hovered = {}

\* No history is in use.
NoSession ==
    /\ hist = NoHistory
    /\ cstate = NoState
    /\ created_edge_id = created_at_creation
    /\ log = <<>>

Init ==
    \E document \in Documents :
        /\ heap = <<Loaded(document).graph>>
        /\ counters = Loaded(document).counters
        /\ graph = 1
        /\ last = NoCall
        /\ NoSession
        /\ NoLayer
        /\ NoSelection

CanCall == Len(heap) < MaxGraphs

AddNode ==
    /\ CanCall
    /\ \E node \in AddNodeInputs :
        Call("add_node", node, add_node(heap, counters, graph, node))

UpdateNode ==
    /\ CanCall
    /\ \E node \in UpdateNodeInputs :
        Call("update_node", node, update_node(heap, counters, graph, node))

RemoveNode ==
    /\ CanCall
    /\ \E node_id \in NodeIdInputs :
        Call("remove_node", node_id, remove_node(heap, counters, graph, node_id))

MoveNodes ==
    /\ CanCall
    /\ \E node_ids \in NodeIdLists, d \in Deltas :
        Call("move_nodes", [node_ids |-> node_ids, dx |-> d[1], dy |-> d[2]],
             move_nodes(heap, counters, graph, node_ids, d[1], d[2]))

SetNodePosition ==
    /\ CanCall
    /\ \E node_id \in NodeIdInputs, p \in Positions :
        Call("set_node_position", [node_id |-> node_id, x |-> p[1], y |-> p[2]],
             set_node_position(heap, counters, graph, node_id, p[1], p[2]))

Connect ==
    /\ CanCall
    /\ \E input \in ConnectInputs :
        Call("connect", input, connect(heap, counters, graph, input))

RemoveEdge ==
    /\ CanCall
    /\ \E edge_id \in EdgeIdInputs :
        Call("remove_edge", edge_id, remove_edge(heap, counters, graph, edge_id))

Next ==
    \/ AddNode
    \/ UpdateNode
    \/ RemoveNode
    \/ MoveNodes
    \/ SetNodePosition
    \/ Connect
    \/ RemoveEdge

Spec == Init /\ [][Next]_vars

(***************************************************************************)
(* Saving and loading: graphs built by add_node and connect are            *)
(* serialized and deserialized again; the caller keeps the graph restored. *)
(***************************************************************************)
RoundTrip ==
    /\ Len(heap) <= MaxGraphs
    /\ Call("round_trip", serialize_graph(heap, graph),
            deserialize_graph(heap, counters, serialize_graph(heap, graph)))

NextSerialize ==
    \/ AddNode
    \/ Connect
    \/ RoundTrip

SpecSerialize == Init /\ [][NextSerialize]_vars

(***************************************************************************)
(* The id generator and the loading of stored snapshots.  The caller keeps *)
(* only the graph a load returns: the objects nothing refers to any more   *)
(* are dropped from the heap.                                              *)
(***************************************************************************)
id_n_1 == <<"n", "_", "1">>
id_n_2 == <<"n", "_", "2">>
id_n_z == <<"n", "_", "z">>
id_n_10 == <<"n", "_", "1", "0">>
id_n_ == <<"n", "_">>
id__1 == <<"_", "1">>
id_constructor_1 == <<"c", "o", "n", "s", "t", "r", "u", "c", "t", "o", "r", "_", "1">>
id_out == <<"o", "u", "t">>
id_in == <<"i", "n">>

\* A node with an out port `out` and an in port `in`.
PlainNode(id) ==
    NodeInput(id, <<PortInput(id_out, "right", "out", 0),
                    PortInput(id_in, "left", "in", 0)>>)

Snapshot(node_ids, edges) ==
    [nodes |-> [i \in DOMAIN node_ids |-> PlainNode(node_ids[i])], edges |-> edges]

\* n_1 and n_2 joined by e_1, as in the test of priming.
snapshot_primes ==
    Snapshot(<<id_n_1, id_n_2>>,
             <<EdgeInput(id_e_1, Endpoint(id_n_1, id_out), Endpoint(id_n_2, id_in))>>)

\* Suffixes of one and two digits, and one with no digit after the separator.
snapshot_base36 == Snapshot(<<id_n_z, id_n_10, id_n_>>, <<>>)

\* Ids that are no generated ids, and an edge id that is.
snapshot_named ==
    Snapshot(<<id_a, id_b>>,
             <<EdgeInput(id_e_2, Endpoint(id_a, id_out), Endpoint(id_b, id_in))>>)

\* An id gen_id('') generates.
snapshot_empty_prefix == Snapshot(<<id__1>>, <<>>)

\* An id gen_id('constructor') generates.
snapshot_constructor == Snapshot(<<id_constructor_1>>, <<>>)

\* An edge to a node that is not in the snapshot.
snapshot_dangling ==
    Snapshot(<<id_n_2>>,
             <<EdgeInput(id_e_2, Endpoint(id_n_2, id_out), Endpoint(id_n_1, id_in))>>)

SnapshotInputs ==
    {EmptySnapshot, snapshot_primes, snapshot_base36, snapshot_named,
     snapshot_empty_prefix, snapshot_constructor, snapshot_dangling}

PrefixInputs == {<<"e">>, <<"n">>, <<>>}

SeedInputs ==
    {<<>>, <<<<<<"e">>, 2>>>>, <<<<<<"n">>, 1>>, <<<<"e">>, 1>>>>, <<<<<<>>, 0 - 1>>>>}

InitIds ==
    /\ heap = <<create_graph>>
    /\ counters = EmptyMap
    /\ graph = 1
    /\ last = NoCall
    /\ NoSession
    /\ NoLayer
    /\ NoSelection

GenId ==
    \E prefix \in PrefixInputs :
        /\ counter_of(counters, prefix) < MaxCounter
        /\ counters' = gen_id(counters, prefix).counters
        /\ last' = IdCallRecord("gen_id", prefix, gen_id(counters, prefix).id)
        /\ UNCHANGED <<heap, graph>>
        /\ UNCHANGED hvars /\ UNCHANGED lvars
        /\ UNCHANGED svars
PeekId ==
    \E prefix \in PrefixInputs :
        /\ last' = IdCallRecord("peek_id", prefix, peek_id(counters, prefix))
        /\ UNCHANGED <<heap, graph, counters>>
        /\ UNCHANGED hvars /\ UNCHANGED lvars
        /\ UNCHANGED svars
ResetIds ==
    \E seed \in SeedInputs :
        /\ counters' = reset_ids(seed)
        /\ last' = IdCallRecord("reset_ids", seed, Undefined)
        /\ UNCHANGED <<heap, graph>>
        /\ UNCHANGED hvars /\ UNCHANGED lvars
        /\ UNCHANGED svars
PrimeIds ==
    \E seed \in SeedInputs :
        /\ counters' = prime_ids(counters, seed)
        /\ last' = IdCallRecord("prime_ids", seed, Undefined)
        /\ UNCHANGED <<heap, graph>>
        /\ UNCHANGED hvars /\ UNCHANGED lvars
        /\ UNCHANGED svars
Deserialize ==
    \E snapshot \in SnapshotInputs :
        LET r == deserialize_graph(heap, counters, snapshot)
        IN  /\ counters' = r.counters
            /\ heap' = IF r.err = "none" THEN <<r.heap[r.out]>> ELSE heap
            /\ graph' = 1
            /\ last' = [CallRecord("deserialize", snapshot, r) EXCEPT
                            !.output = IF r.err = "none" THEN 1 ELSE NoRef]
            /\ UNCHANGED hvars /\ UNCHANGED lvars
            /\ UNCHANGED svars
NextIds ==
    \/ GenId
    \/ PeekId
    \/ ResetIds
    \/ PrimeIds
    \/ Deserialize

SpecIds == InitIds /\ [][NextIds]_vars

(***************************************************************************)
(* The id generator on its own.  This caller keeps in `log` the ids that   *)
(* gen_id has returned to it since the last reset_ids, oldest first.       *)
(***************************************************************************)
Issued(prefix, id) == [op |-> "gen_id", prefix |-> prefix, id |-> id]

GenIdLogged ==
    \E prefix \in PrefixInputs :
        /\ counter_of(counters, prefix) < MaxCounter
        /\ Len(log) < MaxIssued
        /\ counters' = gen_id(counters, prefix).counters
        /\ last' = IdCallRecord("gen_id", prefix, gen_id(counters, prefix).id)
        /\ log' = Append(log, Issued(prefix, gen_id(counters, prefix).id))
        /\ UNCHANGED <<heap, graph, hist, cstate, created_edge_id, store, selection, arrays>> /\ UNCHANGED lvars

ResetIdsLogged ==
    \E seed \in SeedInputs :
        /\ counters' = reset_ids(seed)
        /\ last' = IdCallRecord("reset_ids", seed, Undefined)
        /\ log' = <<>>
        /\ UNCHANGED <<heap, graph, hist, cstate, created_edge_id, store, selection, arrays>> /\ UNCHANGED lvars

NextCounters ==
    \/ GenIdLogged
    \/ PeekId
    \/ PrimeIds
    \/ ResetIdsLogged

SpecCounters == InitIds /\ [][NextCounters]_vars

(***************************************************************************)
(* The caller of the selection model: it holds one selection, calls an     *)
(* operation on it and keeps the selection returned; it may take the       *)
(* arrays of the selection and keep them.  Objects the caller no longer    *)
(* refers to are dropped from the store: what is kept is the selection     *)
(* with its two Sets and the arrays object with its two arrays.  `last`    *)
(* records the call: the content of the selection given, whether the       *)
(* object returned is the object given, and, in `taken`, what was selected *)
(* when the arrays now held were taken.                                    *)
(***************************************************************************)
SelectionNodeIds == {id_a, id_x}

SelectionEdgeIds == {id_e_1, id_x}

OptionInputs == {[append |-> "true"], [append |-> "false"], [append |-> "undefined"]}

\* The members of the two Sets (or arrays) of the object at ref.
Content(st, ref) == [nodes |-> st[st[ref].nodes], edges |-> st[st[ref].edges]]

\* The objects reachable from ref, in the order: nodes, edges, the object.
Reachable(st, ref, base) ==
    IF ref = NoRef THEN <<>>
    ELSE <<st[st[ref].nodes], st[st[ref].edges],
           [nodes |-> base + 1, edges |-> base + 2]>>

\* The store with only the objects reachable from the selection sel and
\* from the arrays arr.
Kept(st, sel, arr) == Reachable(st, sel, 0) \o Reachable(st, arr, 3)

SelectionCall(op, arg, options, r) ==
    [op |-> op, arg |-> arg, options |-> options, input |-> selection,
     given |-> Content(store, selection), output |-> r.out,
     same |-> (r.out = selection),
     made |-> (r.out > Len(store)),
     taken |-> IF op = "to_selection_arrays" THEN Content(store, selection)
               ELSE last.taken]

NothingTaken == [nodes |-> <<>>, edges |-> <<>>]

InitSelection ==
    /\ heap = <<create_graph>>
    /\ counters = EmptyMap
    /\ graph = 1
    /\ NoSession
    /\ NoLayer
    /\ store = Kept(create_selection(<<>>).store, create_selection(<<>>).out, NoRef)
    /\ selection = 3
    /\ arrays = NoRef
    /\ last = [NoCall EXCEPT !.given = NothingTaken] @@ [taken |-> NothingTaken]

\* The caller replaces its selection by the one the call returned.
Selects(op, arg, options, r) ==
    /\ store' = Kept(r.store, r.out, arrays)
    /\ selection' = 3
    /\ arrays' = arrays
    /\ last' = SelectionCall(op, arg, options, r)
    /\ UNCHANGED <<heap, counters, graph>>
    /\ UNCHANGED hvars /\ UNCHANGED lvars

SelectNode ==
    \E node_id \in SelectionNodeIds, options \in OptionInputs :
        Selects("select_node", node_id, options,
                select_node(store, selection, node_id, options))

SelectEdge ==
    \E edge_id \in SelectionEdgeIds, options \in OptionInputs :
        Selects("select_edge", edge_id, options,
                select_edge(store, selection, edge_id, options))

DeselectNode ==
    \E node_id \in SelectionNodeIds :
        Selects("deselect_node", node_id, Undefined,
                deselect_node(store, selection, node_id))

DeselectEdge ==
    \E edge_id \in SelectionEdgeIds :
        Selects("deselect_edge", edge_id, Undefined,
                deselect_edge(store, selection, edge_id))

ToggleNode ==
    \E node_id \in SelectionNodeIds :
        Selects("toggle_node", node_id, Undefined,
                toggle_node(store, selection, node_id))

ToggleEdge ==
    \E edge_id \in SelectionEdgeIds :
        Selects("toggle_edge", edge_id, Undefined,
                toggle_edge(store, selection, edge_id))

ClearSelection ==
    Selects("clear_selection", Undefined, Undefined,
            clear_selection(store, selection))

\* The caller keeps the arrays returned and the selection it had.
Takes(r) ==
    /\ store' = Kept(r.store, selection, r.out)
    /\ selection' = 3
    /\ arrays' = 6
    /\ last' = [SelectionCall("to_selection_arrays", Undefined, Undefined, r)
                    EXCEPT !.same = FALSE]
    /\ UNCHANGED <<heap, counters, graph>>
    /\ UNCHANGED hvars /\ UNCHANGED lvars

ToSelectionArrays == Takes(to_selection_arrays(store, selection))

NextSelection ==
    \/ SelectNode
    \/ SelectEdge
    \/ DeselectNode
    \/ DeselectEdge
    \/ ToggleNode
    \/ ToggleEdge
    \/ ClearSelection
    \/ ToSelectionArrays

SpecSelection == InitSelection /\ [][NextSelection]_vars

(***************************************************************************)
(* The caller of a history: it builds one of the two histories on a graph  *)
(* that is empty or loaded from a stored document, then executes commands  *)
(* of `Commands`, undoes and redoes.  When a command throws, the caller    *)
(* keeps the history it had.  `log` records each call: the command object, *)
(* the error thrown, whether do returned a graph other than the one it was *)
(* given, the result of do and the result handed to the caller, the        *)
(* history before the call and the current graph after it.                 *)
(***************************************************************************)
LogEntry(op, k, err, changed, returned, result, before, current) ==
    [op |-> op, command |-> k, err |-> err, changed |-> changed,
     returned |-> returned, result |-> result, before |-> before,
     graph |-> current]

InitHistory ==
    \E document \in Documents :
        /\ heap = <<Loaded(document).graph>>
        /\ counters = Loaded(document).counters
        /\ graph = 1
        /\ last = NoCall
        /\ created_edge_id = created_at_creation
        /\ log = <<>>
        /\ NoSelection
        /\ NoLayer
        /\ \/ /\ hist = create_history(1)
              /\ cstate = NoState
           \/ /\ hist = NoHistory
              /\ \E limit \in 0 .. MaxLimit :
                    /\ cstate = create_command_state(1, limit)
                    /\ cstate # NoState

CanStep == Len(log) < MaxSteps

\* The caller executes the command object k on its History_state: done is
\* what the command's do returns, r what execute_command returns.
Executes(k, done, r) ==
    /\ heap' = r.heap
    /\ counters' = r.counters
    /\ created_edge_id' = r.created
    /\ hist' = r.history
    /\ log' = Append(log,
            LogEntry("execute", k, r.err,
                     done.err = "none" /\ done.out # hist.graph,
                     done.result, r.result, hist, r.history.graph))
    /\ UNCHANGED <<graph, last, cstate, store, selection, arrays>> /\ UNCHANGED lvars

ExecuteCommand ==
    /\ hist # NoHistory
    /\ CanStep
    /\ \E k \in DOMAIN Commands :
        Executes(k, command_do(heap, counters, created_edge_id, hist.graph, k),
                 execute_command(heap, counters, created_edge_id, hist, k))

Undoes(r) ==
    /\ heap' = r.heap
    /\ hist' = r.history
    /\ log' = Append(log,
            LogEntry("undo", 0, "none", FALSE, Undefined, Undefined,
                     hist, r.history.graph))
    /\ UNCHANGED <<counters, created_edge_id, graph, last, cstate, store, selection, arrays>> /\ UNCHANGED lvars

Undo ==
    /\ hist # NoHistory
    /\ CanStep
    /\ Undoes(undo(heap, counters, created_edge_id, hist))

Redo ==
    /\ hist # NoHistory
    /\ CanStep
    /\ hist' = redo(hist)
    /\ log' = Append(log,
            LogEntry("redo", 0, "none", FALSE, Undefined, Undefined,
                     hist, redo(hist).graph))
    /\ UNCHANGED <<heap, counters, created_edge_id, graph, last, cstate, store, selection, arrays>> /\ UNCHANGED lvars

\* The same on the Command_state.
ExecutesState(k, done, r) ==
    /\ heap' = r.heap
    /\ counters' = r.counters
    /\ created_edge_id' = r.created
    /\ cstate' = r.state
    /\ log' = Append(log,
            LogEntry("execute", k, r.err,
                     done.err = "none" /\ done.out # cstate.history.present,
                     done.result, r.result, cstate, get_present_graph(r.state)))
    /\ UNCHANGED <<graph, last, hist, store, selection, arrays>> /\ UNCHANGED lvars

ExecuteCommandState ==
    /\ cstate # NoState
    /\ CanStep
    /\ \E k \in DOMAIN Commands :
        ExecutesState(k,
            command_do(heap, counters, created_edge_id, cstate.history.present, k),
            execute_command_state(heap, counters, created_edge_id, cstate, k))

UndoCommand ==
    /\ cstate # NoState
    /\ CanStep
    /\ cstate' = undo_command(cstate)
    /\ log' = Append(log,
            LogEntry("undo", 0, "none", FALSE, Undefined, Undefined,
                     cstate, get_present_graph(undo_command(cstate))))
    /\ UNCHANGED <<heap, counters, created_edge_id, graph, last, hist, store, selection, arrays>> /\ UNCHANGED lvars

RedoCommand ==
    /\ cstate # NoState
    /\ CanStep
    /\ cstate' = redo_command(cstate)
    /\ log' = Append(log,
            LogEntry("redo", 0, "none", FALSE, Undefined, Undefined,
                     cstate, get_present_graph(redo_command(cstate))))
    /\ UNCHANGED <<heap, counters, created_edge_id, graph, last, hist, store, selection, arrays>> /\ UNCHANGED lvars

NextHistory ==
    \/ ExecuteCommand
    \/ Undo
    \/ Redo
    \/ ExecuteCommandState
    \/ UndoCommand
    \/ RedoCommand

SpecHistory == InitHistory /\ [][NextHistory]_vars

(***************************************************************************)
(* Properties of the graph operations, stated on the record of the last    *)
(* call: `last.given` is the content of the graph at the time of the call, *)
(* `heap[last.output]` the graph returned.                                 *)
(***************************************************************************)
\* The port an endpoint names in graph content g, as a sequence: empty when
\* the node or the port is missing.
PortNamed(g, endpoint) ==
    IF ~map_has(g.nodes, endpoint.node_id) THEN <<>>
    ELSE SelectSeq(map_get(g.nodes, endpoint.node_id).ports,
                   LAMBDA port : port.id = endpoint.port_id)

Resolves(g, endpoint) == PortNamed(g, endpoint) # <<>>

KindOf(g, endpoint) == PortNamed(g, endpoint)[1].kind

Touches(edge, node_id) == edge.from.node_id = node_id \/ edge.to.node_id = node_id

\* C4: remove_node of a node that is present returns a graph without the
\* node and without any edge from or to it; the other nodes and the edges
\* that do not touch it are kept as they were, in their order.
RemoveNodeCascades ==
    (last.op = "remove_node" /\ map_has(last.given.nodes, last.arg)) =>
        /\ last.err = "none"
        /\ last.output \in DOMAIN heap
        /\ ~map_has(heap[last.output].nodes, last.arg)
        /\ \A i \in DOMAIN heap[last.output].edges :
                ~Touches(heap[last.output].edges[i], last.arg)
        /\ heap[last.output].nodes =
                SelectSeq(last.given.nodes, LAMBDA node : node.id # last.arg)
        /\ heap[last.output].edges =
                SelectSeq(last.given.edges, LAMBDA edge : ~Touches(edge, last.arg))

\* A node with a self-loop was removed from a graph that holds another node
\* and an edge that does not touch the node removed.
RemoveNodeCascadesWitness ==
    /\ last.op = "remove_node"
    /\ map_has(last.given.nodes, last.arg)
    /\ \E i \in DOMAIN last.given.edges :
            /\ last.given.edges[i].from.node_id = last.arg
            /\ last.given.edges[i].to.node_id = last.arg
    /\ heap[last.output].edges # <<>>
    /\ heap[last.output].nodes # <<>>

\* C5 as stated: a connect whose from endpoint names an in port, or whose to
\* endpoint names an out port, fails with the invalid-direction error.
WrongDirectionAlwaysDirectionError ==
    (/\ last.op = "connect"
     /\ \/ Resolves(last.given, last.arg.from) /\ KindOf(last.given, last.arg.from) = "in"
        \/ Resolves(last.given, last.arg.to) /\ KindOf(last.given, last.arg.to) = "out")
        => last.err = "InvalidPortDirection"

\* C5 amended: such a connect always fails and adds no edge; the error is the
\* invalid-direction error when both endpoints name existing ports (a missing
\* node or port is reported first); an edge added by connect starts at an out
\* port and ends at an in port.
WrongDirectionRejected ==
    /\ (/\ last.op = "connect"
        /\ \/ Resolves(last.given, last.arg.from)
                /\ KindOf(last.given, last.arg.from) = "in"
           \/ Resolves(last.given, last.arg.to)
                /\ KindOf(last.given, last.arg.to) = "out")
            => /\ last.err # "none"
               /\ last.output = NoRef
               /\ heap[graph] = last.given
               /\ (Resolves(last.given, last.arg.from) /\ Resolves(last.given, last.arg.to))
                    => last.err = "InvalidPortDirection"
    /\ (last.op = "connect" /\ last.err = "none")
            => /\ KindOf(last.given, last.arg.from) = "out"
               /\ KindOf(last.given, last.arg.to) = "in"

\* A connect from an out port to an out port of existing nodes was refused.
WrongDirectionRejectedWitness ==
    /\ last.op = "connect"
    /\ Resolves(last.given, last.arg.from)
    /\ Resolves(last.given, last.arg.to)
    /\ KindOf(last.given, last.arg.from) = "out"
    /\ KindOf(last.given, last.arg.to) = "out"
    /\ last.err = "InvalidPortDirection"

\* C6: no call changes a graph object that exists, the one passed to it
\* included; a call that fails returns no graph and the caller's graph is
\* the one it held, with the content it had.
GraphsNeverMutated ==
    [][/\ \A ref \in DOMAIN heap : ref \in DOMAIN heap' /\ heap'[ref] = heap[ref]
       /\ last'.err # "none" =>
            /\ last'.output = NoRef
            /\ graph' = graph
            /\ heap'[graph'] = last'.given]_vars

\* A call failed on a graph that holds nodes and an edge.
GraphsNeverMutatedWitness ==
    /\ last.err = "DuplicateEdge"
    /\ heap[graph].edges # <<>>
    /\ Len(heap) > 1

\* C9: these calls return the reference they were given: move_nodes by
\* (0, 0), move_nodes naming no node of the graph, remove_node and
\* remove_edge of an absent id, set_node_position to the current position.
NoOpsReturnSameGraph ==
    /\ (last.op = "move_nodes" /\ last.arg.dx = 0 /\ last.arg.dy = 0)
            => last.output = last.input
    /\ (/\ last.op = "move_nodes"
        /\ \A i \in DOMAIN last.arg.node_ids :
                ~map_has(last.given.nodes, last.arg.node_ids[i]))
            => last.output = last.input
    /\ (last.op = "remove_node" /\ ~map_has(last.given.nodes, last.arg))
            => last.output = last.input
    /\ (last.op = "remove_edge" /\ ~map_has(last.given.edges, last.arg))
            => last.output = last.input
    /\ (/\ last.op = "set_node_position"
        /\ map_has(last.given.nodes, last.arg.node_id)
        /\ map_get(last.given.nodes, last.arg.node_id).x = last.arg.x
        /\ map_get(last.given.nodes, last.arg.node_id).y = last.arg.y)
            => last.output = last.input

\* remove_edge of an id that is not an edge, on a graph that has edges.
NoOpsReturnSameGraphWitness ==
    /\ last.op = "remove_edge"
    /\ last.given.edges # <<>>
    /\ ~map_has(last.given.edges, last.arg)
    /\ last.output = last.input

\* The checks of connect all pass: both endpoints name ports, an out port and
\* an in port, and the id the edge gets is not the id of an edge.
PassesValidation(g, input, peeked) ==
    /\ Resolves(g, input.from)
    /\ Resolves(g, input.to)
    /\ KindOf(g, input.from) = "out"
    /\ KindOf(g, input.to) = "in"
    /\ ~map_has(g.edges, IF input.id = Undefined THEN peeked ELSE input.id)

\* C10: a connect that passes validation returns a new graph with the same
\* nodes, the same edges in the same order and one edge after them; that
\* edge has the id supplied, or the id peek_id('e') showed before the call,
\* and the endpoints given.
ConnectAddsOneEdge ==
    (last.op = "connect" /\ PassesValidation(last.given, last.arg, last.peek)) =>
        /\ last.err = "none"
        /\ last.output \in DOMAIN heap
        /\ last.output # last.input
        /\ heap[last.output].nodes = last.given.nodes
        /\ Len(heap[last.output].edges) = Len(last.given.edges) + 1
        /\ SubSeq(heap[last.output].edges, 1, Len(last.given.edges)) = last.given.edges
        /\ LET edge == heap[last.output].edges[Len(last.given.edges) + 1]
           IN  /\ edge.id = IF last.arg.id = Undefined THEN last.peek ELSE last.arg.id
               /\ edge.from = last.arg.from
               /\ edge.to = last.arg.to

\* A connect without an id between two ports of one node that an edge joins
\* already: a second edge between the same ports, and a self-loop.
ConnectAddsOneEdgeWitness ==
    /\ last.op = "connect"
    /\ last.err = "none"
    /\ last.arg.id = Undefined
    /\ last.arg.from.node_id = last.arg.to.node_id
    /\ \E i \in DOMAIN last.given.edges :
            /\ last.given.edges[i].from = last.arg.from
            /\ last.given.edges[i].to = last.arg.to
    /\ Len(heap[last.output].edges) = 2

(***************************************************************************)
(* Properties of serialization.                                            *)
(***************************************************************************)
\* C7: for a graph built by add_node and connect, deserializing what
\* serialize_graph returns succeeds and gives a graph with the same nodes
\* (ids, order, positions, ports with id, node_id, side, kind and index) and
\* the same edges (ids, order, endpoints).
RoundTripRestoresGraph ==
    last.op = "round_trip" =>
        /\ last.err = "none"
        /\ last.output \in DOMAIN heap
        /\ heap[last.output].nodes = last.given.nodes
        /\ heap[last.output].edges = last.given.edges

\* A graph of two nodes and two edges, one with a generated id, went
\* through the round trip.
RoundTripRestoresGraphWitness ==
    /\ last.op = "round_trip"
    /\ last.err = "none"
    /\ Len(last.given.nodes) = 2
    /\ Len(last.given.edges) = 2
    /\ \E i \in DOMAIN last.given.edges : last.given.edges[i].id = id_e_1

\* The ids of a snapshot's nodes and edges.
SnapshotIds(snapshot) ==
    {snapshot.nodes[i].id : i \in DOMAIN snapshot.nodes}
        \cup {snapshot.edges[i].id : i \in DOMAIN snapshot.edges}

\* id is prefix, "_", and a non-empty run of base-36 digits.
HasForm(id, prefix) ==
    /\ Len(id) > Len(prefix) + 1
    /\ SubSeq(id, 1, Len(prefix)) = prefix
    /\ id[Len(prefix) + 1] = "_"
    /\ \A i \in (Len(prefix) + 2)..Len(id) : IsDigit36(id[i])

SuffixValue(id, prefix) == digits_value(SubSeq(id, Len(prefix) + 2, Len(id)))

\* The larger of `before` and the suffixes of the ids of the form
\* prefix_<suffix>.
LargestWithSuffixes(before, ids, prefix) ==
    LET values ==
            {before} \cup
                {SuffixValue(id, prefix) : id \in {i \in ids : HasForm(i, prefix)}}
    IN  CHOOSE v \in values : \A w \in values : w <= v

\* Every prefix an id of the snapshot may have been generated with.
PrefixesOf(ids) ==
    {SubSeq(id, 1, last_index_of_underscore(id) - 1) :
        id \in {i \in ids : last_index_of_underscore(i) > 0}}

\* C8: after deserialize_graph returns, the counter of every prefix is the
\* larger of the counter before the call and the largest suffix of the
\* snapshot's ids of that prefix, and the next gen_id of no prefix is an id
\* of the snapshot.
DeserializePrimesCounters ==
    (last.op = "deserialize" /\ last.err = "none") =>
        \A prefix \in PrefixInputs \cup PrefixesOf(SnapshotIds(last.arg)) :
            /\ counter_of(counters, prefix) =
                    LargestWithSuffixes(counter_of(last.counters, prefix),
                                        SnapshotIds(last.arg), prefix)
            /\ gen_id(counters, prefix).id \notin SnapshotIds(last.arg)

(***************************************************************************)
(* Properties of the two histories, stated on the log of the calls made.   *)
(***************************************************************************)
LastCall == log[Len(log)]

\* The graph that is current in the history in use.
CurrentGraph == IF hist # NoHistory THEN hist.graph ELSE get_present_graph(cstate)

\* The history in use, and the undo side and the redo side of a history as
\* the log keeps it.
Held == IF hist # NoHistory THEN hist ELSE cstate

UndoSideOf(held) ==
    IF hist # NoHistory THEN held.undo_stack ELSE held.history.past

RedoSideOf(held) ==
    IF hist # NoHistory THEN held.redo_stack ELSE held.history.future

RedoSide == RedoSideOf(Held)

\* The stacks of a history as the log keeps it.
StacksOf(held) ==
    IF hist # NoHistory THEN <<held.undo_stack, held.redo_stack>>
    ELSE <<held.history.past, held.history.present, held.history.future>>

StacksNow == StacksOf(Held)

\* A redo issued now returns the history it is given.
RedoIsNoOp ==
    IF hist # NoHistory THEN redo(hist) = hist ELSE redo_command(cstate) = cstate

ValuesOf(m) == {m[i] : i \in DOMAIN m}

\* Structural equality of two graphs: the same nodes and the same edges.
SameGraph(g1, g2) ==
    /\ ValuesOf(g1.nodes) = ValuesOf(g2.nodes)
    /\ ValuesOf(g1.edges) = ValuesOf(g2.edges)

\* The calls from place a to place b of the log are all calls of op.
AllCalls(a, b, op) == \A i \in a .. b : log[i].op = op

\* The first n calls executed a command without error.
ExecutedFirst(n) ==
    \A i \in 1 .. n : log[i].op = "execute" /\ log[i].err = "none"

\* An earlier call of the log was an undo.
UndoneBefore == \E i \in 1 .. Len(log) - 1 : log[i].op = "undo"

ExecutedLast ==
    /\ log # <<>>
    /\ LastCall.op = "execute"
    /\ LastCall.err = "none"

\* C1: in the command-entry history, after n commands executed without
\* error from the initial graph, n undos leave a current graph structurally
\* equal to the initial graph, and n redos after them leave the graph that
\* was current after the n-th command.
UndoAllRestoresInitialGraph ==
    hist # NoHistory =>
        \A n \in 1 .. Len(log) :
            ExecutedFirst(n) =>
                /\ (Len(log) = 2 * n /\ AllCalls(n + 1, 2 * n, "undo"))
                    => SameGraph(heap[hist.graph], heap[1])
                /\ (/\ Len(log) = 3 * n
                    /\ AllCalls(n + 1, 2 * n, "undo")
                    /\ AllCalls(2 * n + 1, 3 * n, "redo"))
                    => SameGraph(heap[hist.graph], heap[log[n].graph])

\* C2 as stated: in both histories, a command executed after an undo leaves
\* the redo side empty, and a redo issued right after it is a no-op.
ExecuteAfterUndoEmptiesRedo ==
    (ExecutedLast /\ UndoneBefore) => (RedoSide = <<>> /\ RedoIsNoOp)

\* C2, amended: in both histories, a command executed after an undo whose
\* do returns a graph other than the one it was given leaves the redo side
\* empty, and a redo issued right after it is a no-op.
MutatingExecuteAfterUndoEmptiesRedo ==
    (ExecutedLast /\ UndoneBefore /\ LastCall.changed)
        => (RedoSide = <<>> /\ RedoIsNoOp)

\* There was something to redo when the command was executed.
MutatingExecuteAfterUndoEmptiesRedoWitness ==
    /\ ExecutedLast
    /\ UndoneBefore
    /\ LastCall.changed
    /\ RedoSideOf(LastCall.before) # <<>>
    /\ RedoSide = <<>>

\* C3: when a command's do returns the very graph it was given, executing
\* it leaves the stacks of the history (undo_stack and redo_stack; past,
\* present and future) exactly as they were, and the caller is handed the
\* result do returned.
UnchangedGraphRecordsNoEntry ==
    (ExecutedLast /\ ~LastCall.changed) =>
        /\ StacksNow = StacksOf(LastCall.before)
        /\ hist # NoHistory => hist.graph = LastCall.before.graph
        /\ LastCall.result = LastCall.returned

\* A command with a result is executed while both stacks hold something.
UnchangedGraphRecordsNoEntryWitness ==
    /\ ExecutedLast
    /\ ~LastCall.changed
    /\ LastCall.result = id_noop
    /\ UndoSideOf(LastCall.before) # <<>>
    /\ RedoSideOf(LastCall.before) # <<>>
    /\ StacksNow = StacksOf(LastCall.before)

(***************************************************************************)
(* Properties of add_node's validation and normalization.                  *)
(***************************************************************************)
DecimalDigits == <<"0", "1", "2", "3", "4", "5", "6", "7", "8", "9">>

\* <node_id>_port_<position>, for the positions of the inputs.
AutoPortId(node_id, position) ==
    node_id \o <<"_", "p", "o", "r", "t", "_">> \o <<DecimalDigits[position + 1]>>

\* The id the port at place i (position i - 1) of the node given resolves to.
ResolvedId(node, i) ==
    IF node.ports[i].id = Undefined THEN AutoPortId(node.id, i - 1)
    ELSE node.ports[i].id

\* C11: add_node fails with the duplicate-node error when the node id is
\* present, with the duplicate-port error when two ports resolve to the same
\* id (an explicit id equal to an auto-assigned one included); otherwise
\* each port of the stored node carries its id, the node's id as node_id and
\* the index given or its position.
AddNodeValidatesAndNormalizes ==
    last.op = "add_node" =>
        LET node == last.arg
        IN  IF \E i \in DOMAIN last.given.nodes : last.given.nodes[i].id = node.id
            THEN last.err = "DuplicateNode"
            ELSE IF \E i, j \in DOMAIN node.ports :
                        i # j /\ ResolvedId(node, i) = ResolvedId(node, j)
            THEN last.err = "DuplicatePort"
            ELSE /\ last.err = "none"
                 /\ \E k \in DOMAIN heap[last.output].nodes :
                        LET stored == heap[last.output].nodes[k]
                        IN  /\ stored.id = node.id
                            /\ DOMAIN stored.ports = DOMAIN node.ports
                            /\ \A i \in DOMAIN node.ports :
                                /\ stored.ports[i].id = ResolvedId(node, i)
                                /\ stored.ports[i].id # Undefined
                                /\ stored.ports[i].node_id = node.id
                                /\ stored.ports[i].index =
                                        IF node.ports[i].index = NoNumber THEN i - 1
                                        ELSE node.ports[i].index

\* A node is stored whose first port had no id, named another node and
\* carried an index other than its position.
AddNodeValidatesAndNormalizesWitness ==
    /\ last.op = "add_node"
    /\ last.err = "none"
    /\ last.arg.ports[1].id = Undefined
    /\ last.arg.ports[1].node_id \notin {Undefined, last.arg.id}
    /\ last.arg.ports[1].index = 2
    /\ last.arg.ports[2].index = NoNumber

(***************************************************************************)
(* Properties of the snapshot history.                                     *)
(***************************************************************************)
\* The last call pushed a new graph on a history whose past was full.
PushedAtCapacity ==
    /\ cstate # NoState
    /\ ExecutedLast
    /\ LastCall.changed
    /\ Len(LastCall.before.history.past) = LastCall.before.history.limit

\* C12: the past of a snapshot history created with limit L never holds
\* more than L snapshots; a push at capacity drops the oldest past snapshot
\* only, keeps the others in order followed by the former present, and the
\* snapshot dropped is nowhere in the history any more.
PastWithinLimit ==
    cstate # NoState =>
        /\ Len(cstate.history.past) <= cstate.history.limit
        /\ PushedAtCapacity =>
            LET before == LastCall.before.history
                dropped == before.past[1]
            IN  /\ cstate.history.past =
                        SubSeq(before.past, 2, Len(before.past)) \o <<before.present>>
                /\ cstate.history.limit = before.limit
                /\ \A i \in DOMAIN cstate.history.past :
                        cstate.history.past[i] # dropped
                /\ cstate.history.present # dropped
                /\ cstate.history.future = <<>>

\* A push at capacity that keeps a past snapshot besides the former present.
PastWithinLimitWitness ==
    /\ PushedAtCapacity
    /\ Len(LastCall.before.history.past) = 2
    /\ Len(cstate.history.past) = 2

(***************************************************************************)
(* Properties of the id generator, stated on the ids issued since the last *)
(* reset (`log`) and on the record of the last call, whose `counters` are  *)
(* the counters at the time of the call.                                   *)
(***************************************************************************)
\* The prefixes a seed names.
SeedPrefixes(seed) == {seed[i][1] : i \in DOMAIN seed}

\* The last call was made for prefix q only.
LastCallOnlyFor(q) ==
    \/ last.op \in {"gen_id", "peek_id"} /\ last.arg = q
    \/ last.op = "prime_ids" /\ SeedPrefixes(last.arg) = {q}

\* C13: between two resets the counters carried by the ids gen_id returns
\* for one prefix strictly increase, no id is returned twice, and a call
\* for another prefix leaves what gen_id(p) returns next as it was.
IdsIncreasePerPrefix ==
    /\ \A i, j \in DOMAIN log :
            i < j =>
                /\ log[i].id # log[j].id
                /\ log[i].prefix = log[j].prefix =>
                        /\ HasForm(log[i].id, log[i].prefix)
                        /\ HasForm(log[j].id, log[j].prefix)
                        /\ SuffixValue(log[i].id, log[i].prefix)
                                < SuffixValue(log[j].id, log[j].prefix)
    /\ \A p, q \in PrefixInputs :
            (p # q /\ LastCallOnlyFor(q)) =>
                gen_id(counters, p).id = gen_id(last.counters, p).id

\* Two ids of one prefix with an id of another prefix between them, the
\* later one past a counter that prime_ids raised in the meantime.
IdsIncreasePerPrefixWitness ==
    /\ Len(log) >= 3
    /\ log[1].prefix = log[3].prefix
    /\ log[2].prefix # log[1].prefix
    /\ SuffixValue(log[3].id, log[3].prefix) > SuffixValue(log[1].id, log[1].prefix) + 1

\* C14: peek_id(p) returns the id the next gen_id(p) returns and leaves
\* the counters as they were, whether or not p has a counter.
PeekShowsNextId ==
    /\ last.op = "peek_id" =>
            /\ counters = last.counters
            /\ last.result = gen_id(counters, last.arg).id
    /\ last.op = "gen_id" => last.result = peek_id(last.counters, last.arg)

\* A peek for a prefix that has no counter, after ids of other prefixes.
PeekShowsNextIdWitness ==
    /\ last.op = "peek_id"
    /\ last.arg \notin DOMAIN counters
    /\ log # <<>>

\* The larger of two numbers.
Larger(a, b) == IF a >= b THEN a ELSE b

\* C15: prime_ids(seed) leaves the counter of each prefix of the seed at the
\* larger of the counter it had and the seed value, lowers no counter, and
\* leaves the counters of all other prefixes as they were.
PrimeRaisesToSeed ==
    last.op = "prime_ids" =>
        \A p \in PrefixInputs \cup DOMAIN counters \cup DOMAIN last.counters :
            /\ counter_of(counters, p) >= counter_of(last.counters, p)
            /\ IF p \in SeedPrefixes(last.arg)
               THEN \A i \in DOMAIN last.arg :
                        last.arg[i][1] = p =>
                            counter_of(counters, p) =
                                Larger(counter_of(last.counters, p), last.arg[i][2])
               ELSE /\ counter_of(counters, p) = counter_of(last.counters, p)
                    /\ p \in DOMAIN counters <=> p \in DOMAIN last.counters

\* A seed with a value below the counter of its prefix and a value above
\* the counter of another.
PrimeRaisesToSeedWitness ==
    /\ last.op = "prime_ids"
    /\ \E i, j \in DOMAIN last.arg :
            /\ last.arg[i][2] < counter_of(last.counters, last.arg[i][1])
            /\ last.arg[j][2] > counter_of(last.counters, last.arg[j][1])
            /\ counter_of(counters, last.arg[j][1]) = last.arg[j][2]

(***************************************************************************)
(* Properties of the selection model, stated on the record of the last     *)
(* call: `last.given` is what was selected at the time of the call,        *)
(* `last.same` tells that the object returned is the object given.         *)
(***************************************************************************)
Selected == Content(store, selection)

\* The kind an operation works on, and a content seen by kind.
OnNodes == last.op \in {"select_node", "deselect_node", "toggle_node"}

OwnKind(content) == IF OnNodes THEN content.nodes ELSE content.edges

OtherKind(content) == IF OnNodes THEN content.edges ELSE content.nodes

\* C16: select_node / select_edge without append returns a selection that
\* holds the given id alone in the set of its kind and nothing in the other
\* set; when the selection given is that already, the object given is
\* returned.
SelectReplaces ==
    (last.op \in {"select_node", "select_edge"} /\ last.options.append # "true") =>
        /\ OwnKind(Selected) = <<last.arg>>
        /\ OtherKind(Selected) = <<>>
        /\ (OwnKind(last.given) = <<last.arg>> /\ OtherKind(last.given) = <<>>)
                => last.same

\* Two members of the kind and a member of the other kind are replaced, by
\* a call that passes no append option.
SelectReplacesWitness ==
    /\ last.op \in {"select_node", "select_edge"}
    /\ last.options.append = "undefined"
    /\ Len(OwnKind(last.given)) = 2
    /\ OtherKind(last.given) # <<>>
    /\ OwnKind(Selected) = <<last.arg>>

\* C17: select_node / select_edge with append: true adds the id to the set
\* of its kind, changes no other member of either set, and returns the
\* object given when the id is selected already.
SelectAppends ==
    (last.op \in {"select_node", "select_edge"} /\ last.options.append = "true") =>
        /\ ValuesOf(OwnKind(Selected)) = ValuesOf(OwnKind(last.given)) \cup {last.arg}
        /\ Len(OwnKind(Selected)) = Cardinality(ValuesOf(OwnKind(Selected)))
        /\ ValuesOf(OtherKind(Selected)) = ValuesOf(OtherKind(last.given))
        /\ Len(OtherKind(Selected)) = Len(OtherKind(last.given))
        /\ last.arg \in ValuesOf(OwnKind(last.given)) => last.same

\* An id is appended to a selection holding another id of its kind and an
\* id of the other kind.
SelectAppendsWitness ==
    /\ last.op \in {"select_node", "select_edge"}
    /\ last.options.append = "true"
    /\ OwnKind(last.given) # <<>>
    /\ OtherKind(last.given) # <<>>
    /\ last.arg \notin ValuesOf(OwnKind(last.given))
    /\ Len(OwnKind(Selected)) = 2

\* What create_selection() returns.
Created == Content(create_selection(<<>>).store, create_selection(<<>>).out)

\* C18: deselecting removes the id from the set of its kind and leaves all
\* else, so that deselecting every selected id ends in a selection with
\* both sets empty, equal to create_selection(); deselecting an id that is
\* not selected returns the selection given.
DeselectRemoves ==
    last.op \in {"deselect_node", "deselect_edge"} =>
        /\ ValuesOf(OwnKind(Selected)) = ValuesOf(OwnKind(last.given)) \ {last.arg}
        /\ ValuesOf(OtherKind(Selected)) = ValuesOf(OtherKind(last.given))
        /\ last.arg \notin ValuesOf(OwnKind(last.given)) => last.same
        /\ (ValuesOf(OwnKind(last.given)) \subseteq {last.arg}
                /\ OtherKind(last.given) = <<>>)
            => Selected = Created

\* The last id selected is deselected.
DeselectRemovesWitness ==
    /\ last.op \in {"deselect_node", "deselect_edge"}
    /\ OwnKind(last.given) = <<last.arg>>
    /\ OtherKind(last.given) = <<>>
    /\ ~last.same
    /\ Selected = Created

\* The ids selected after toggle_node(id) on the selection held.
ToggledNodes(id) ==
    Content(toggle_node(store, selection, id).store,
            toggle_node(store, selection, id).out)

ToggledEdges(id) ==
    Content(toggle_edge(store, selection, id).store,
            toggle_edge(store, selection, id).out)

\* The same after a second toggle of the same id.
ToggledNodesTwice(id) ==
    Content(toggle_node(toggle_node(store, selection, id).store,
                        toggle_node(store, selection, id).out, id).store,
            toggle_node(toggle_node(store, selection, id).store,
                        toggle_node(store, selection, id).out, id).out)

ToggledEdgesTwice(id) ==
    Content(toggle_edge(toggle_edge(store, selection, id).store,
                        toggle_edge(store, selection, id).out, id).store,
            toggle_edge(toggle_edge(store, selection, id).store,
                        toggle_edge(store, selection, id).out, id).out)

SameMembers(c1, c2) ==
    /\ ValuesOf(c1.nodes) = ValuesOf(c2.nodes)
    /\ ValuesOf(c1.edges) = ValuesOf(c2.edges)

\* C19: toggle_node / toggle_edge removes the id when it is selected and
\* adds it otherwise, changes no other member of either set, and a second
\* toggle of the same id restores the membership.
ToggleFlipsMembership ==
    /\ last.op \in {"toggle_node", "toggle_edge"} =>
            /\ ValuesOf(OwnKind(Selected)) =
                    IF last.arg \in ValuesOf(OwnKind(last.given))
                    THEN ValuesOf(OwnKind(last.given)) \ {last.arg}
                    ELSE ValuesOf(OwnKind(last.given)) \cup {last.arg}
            /\ ValuesOf(OtherKind(Selected)) = ValuesOf(OtherKind(last.given))
    /\ selection # NoRef =>
            /\ \A id \in SelectionNodeIds :
                    /\ ToggledNodes(id).edges = Selected.edges
                    /\ SameMembers(ToggledNodesTwice(id), Selected)
            /\ \A id \in SelectionEdgeIds :
                    /\ ToggledEdges(id).nodes = Selected.nodes
                    /\ SameMembers(ToggledEdgesTwice(id), Selected)

\* A toggle adds an id to a selection holding another id of its kind and an
\* id of the other kind.
ToggleFlipsMembershipWitness ==
    /\ last.op \in {"toggle_node", "toggle_edge"}
    /\ OwnKind(last.given) # <<>>
    /\ OtherKind(last.given) # <<>>
    /\ last.arg \notin ValuesOf(OwnKind(last.given))
    /\ last.arg \in ValuesOf(OwnKind(Selected))

\* C20: the arrays returned by to_selection_arrays hold the node ids and the
\* edge ids that were selected when it was called, and keep holding them
\* whatever is called on the selection afterwards.
ArraysKeepWhatWasSelected ==
    arrays # NoRef =>
        /\ SameMembers(Content(store, arrays), last.taken)
        /\ Len(Content(store, arrays).nodes) = Len(last.taken.nodes)
        /\ Len(Content(store, arrays).edges) = Len(last.taken.edges)

\* Arrays taken of a selection of both kinds, and a selection that has
\* changed since.
ArraysKeepWhatWasSelectedWitness ==
    /\ arrays # NoRef
    /\ last.op # "to_selection_arrays"
    /\ last.taken.nodes # <<>>
    /\ last.taken.edges # <<>>
    /\ ~SameMembers(Selected, last.taken)

\* ---------------------------------------------------------------------
\* The empty selection.
\* ---------------------------------------------------------------------

SelectionOps ==
    {"select_node", "select_edge", "deselect_node", "deselect_edge",
     "toggle_node", "toggle_edge", "clear_selection"}

ReturnedEmpty ==
    /\ last.op \in SelectionOps
    /\ Selected.nodes = <<>>
    /\ Selected.edges = <<>>

\* C21: a selection operation that returns a selection with both sets
\* empty returns the one empty instance: never an object the call made,
\* which is identical to no selection returned before it (the selection
\* create_selection returned at the start among them).
EmptyIsOneInstance == ReturnedEmpty => ~last.made

\* ---------------------------------------------------------------------
\* Numbers of the routing and geometry code: exact rationals <<n, d>> in
\* lowest terms with d > 0, where the code computes in binary floating
\* point.  Infinity is <<1, 0>>; the comparisons below order it above
\* every rational.
\* ---------------------------------------------------------------------

RECURSIVE gcd(_, _)
gcd(a, b) == IF b = 0 THEN a ELSE gcd(b, a % b)

magnitude(n) == IF n < 0 THEN 0 - n ELSE n

lowest(n, d, g) == IF d < 0 THEN <<(0 - n) \div g, (0 - d) \div g>> ELSE <<n \div g, d \div g>>

Rat(n, d) == lowest(n, d, gcd(magnitude(n), magnitude(d)))

Num(i) == <<i, 1>>

Infinity == <<1, 0>>

is_finite(a) == a[2] # 0

\* g is the common divisor of the two denominators.
sum_over(a, b, g) == Rat(a[1] * (b[2] \div g) + b[1] * (a[2] \div g), (a[2] \div g) * b[2])

plus(a, b) == sum_over(a, b, gcd(a[2], b[2]))

minus(a, b) == plus(a, <<0 - b[1], b[2]>>)

times(a, b) == Rat(a[1] * b[1], a[2] * b[2])

over(a, b) == Rat(a[1] * b[2], a[2] * b[1])

negative(a) == <<0 - a[1], a[2]>>

less_over(a, b, g) == a[1] * (b[2] \div g) < b[1] * (a[2] \div g)

less(a, b) == less_over(a, b, gcd(a[2], b[2]))

at_most(a, b) == ~less(b, a)

math_max(a, b) == IF less(a, b) THEN b ELSE a

math_min(a, b) == IF less(b, a) THEN b ELSE a

math_abs(a) == <<magnitude(a[1]), a[2]>>

\* The root of a square number; the anchors of the model lie at rational
\* distances and their normals have rational lengths.
root(n) == CHOOSE r \in 0..n : r * r = n

math_hypot(x, y) == Rat(root(plus(times(x, x), times(y, y))[1]), root(plus(times(x, x), times(y, y))[2]))

Point(x, y) == [x |-> x, y |-> y]

\* a value of an optional member, or the default (the code's ??)
or_default(object, member, default) ==
    IF member \in DOMAIN object THEN object[member] ELSE default

\* ---------------------------------------------------------------------
\* Edge routing (src/react/edge-routing.ts)
\* ---------------------------------------------------------------------

DEFAULT_CURVATURE == Rat(6, 10)
DEFAULT_MIN_HANDLE == Num(40)
DEFAULT_HANDLE_RATIO == Rat(45, 100)
DEFAULT_OBSTACLE_PADDING == Num(12)
DEFAULT_OBSTACLE_SAMPLES == Num(12)
STRAIGHT_ALIGNMENT_THRESHOLD == Rat(9, 10)
STRAIGHT_DISTANCE_THRESHOLD == Num(32)
STRAIGHT_CURVATURE_THRESHOLD == Rat(15, 100)
CURVATURE_DISTANCE_RANGE == Num(240)
OBSTACLE_SHIFT_MULTIPLIER == Rat(65, 100)

shift_attempts_minus_first ==
    <<[direction |-> Num(0 - 1), scale |-> Num(1)],
      [direction |-> Num(1), scale |-> Num(1)],
      [direction |-> Num(0 - 1), scale |-> Rat(3, 2)],
      [direction |-> Num(1), scale |-> Rat(3, 2)]>>

OBSTACLE_SHIFT_ATTEMPTS ==
    <<[direction |-> Num(1), scale |-> Num(1)],
      [direction |-> Num(0 - 1), scale |-> Num(1)],
      [direction |-> Num(1), scale |-> Rat(3, 2)],
      [direction |-> Num(0 - 1), scale |-> Rat(3, 2)]>>

RECURSIVE largest_scale(_, _, _)
largest_scale(attempts, k, max) ==
    IF k > Len(attempts) THEN max
    ELSE largest_scale(attempts, k + 1, math_max(max, math_abs(attempts[k].scale)))

OBSTACLE_SHIFT_MAX_SCALE == largest_scale(OBSTACLE_SHIFT_ATTEMPTS, 1, Num(0))

OBSTACLE_SHIFT_FALLBACK_MULTIPLIER == Num(3)
OBSTACLE_SHIFT_FALLBACK_STEP == Rat(1, 2)

normalize(vector) ==
    IF math_hypot(vector.x, vector.y) = Num(0) THEN Point(Num(0), Num(0))
    ELSE Point(over(vector.x, math_hypot(vector.x, vector.y)),
               over(vector.y, math_hypot(vector.x, vector.y)))

dot(a, b) == plus(times(a.x, b.x), times(a.y, b.y))

clamp01(value) ==
    IF ~is_finite(value) THEN DEFAULT_CURVATURE
    ELSE math_min(Num(1), math_max(Num(0), value))

handles_of_length(from, to, from_normal, to_normal, handle_length) ==
    [from |-> Point(plus(from.position.x, times(from_normal.x, handle_length)),
                    plus(from.position.y, times(from_normal.y, handle_length))),
     to |-> Point(plus(to.position.x, times(to_normal.x, handle_length)),
                  plus(to.position.y, times(to_normal.y, handle_length)))]

compute_handles(from, to, from_normal, to_normal, distance, curvature, min_handle, handle_ratio) ==
    handles_of_length(from, to, from_normal, to_normal,
                      math_max(min_handle, times(times(distance, handle_ratio), curvature)))

compute_control(from, to) ==
    Point(over(plus(from.x, to.x), Num(2)), over(plus(from.y, to.y), Num(2)))

\* The path strings, as the sequence of their words; a number stands for
\* its decimal form.
build_line_path(from, to) == <<"M", from.x, from.y, "L", to.x, to.y>>

build_quadratic_path(from, control, to) ==
    <<"M", from.x, from.y, "Q", control.x, control.y, to.x, to.y>>

shift_handles(handles, direction, offset) ==
    [from |-> Point(plus(handles.from.x, times(direction.x, offset)),
                    plus(handles.from.y, times(direction.y, offset))),
     to |-> Point(plus(handles.to.x, times(direction.x, offset)),
                  plus(handles.to.y, times(direction.y, offset)))]

expand_obstacle(obstacle, padding) ==
    [obstacle EXCEPT !.x = minus(obstacle.x, padding),
                     !.y = minus(obstacle.y, padding),
                     !.width = plus(obstacle.width, times(padding, Num(2))),
                     !.height = plus(obstacle.height, times(padding, Num(2)))]

expand_obstacles(obstacles, padding) ==
    IF at_most(padding, Num(0)) THEN obstacles
    ELSE [i \in DOMAIN obstacles |-> expand_obstacle(obstacles[i], padding)]

point_in_rect(point, rect) ==
    /\ at_most(rect.x, point.x)
    /\ at_most(point.x, plus(rect.x, rect.width))
    /\ at_most(rect.y, point.y)
    /\ at_most(point.y, plus(rect.y, rect.height))

direction(a, b, c) ==
    minus(times(minus(b.x, a.x), minus(c.y, a.y)),
          times(minus(b.y, a.y), minus(c.x, a.x)))

on_segment(a, b, c) ==
    /\ at_most(math_min(a.x, b.x), c.x)
    /\ at_most(c.x, math_max(a.x, b.x))
    /\ at_most(math_min(a.y, b.y), c.y)
    /\ at_most(c.y, math_max(a.y, b.y))

crossing(d1, d2, d3, d4) ==
    \/ (d1[1] > 0 /\ d2[1] < 0 /\ d3[1] < 0 /\ d4[1] > 0)
    \/ (d1[1] < 0 /\ d2[1] > 0 /\ d3[1] > 0 /\ d4[1] < 0)

segments_intersect(a1, a2, b1, b2) ==
    \/ (direction(a1, a2, b1)[1] = 0 /\ on_segment(a1, a2, b1))
    \/ (direction(a1, a2, b2)[1] = 0 /\ on_segment(a1, a2, b2))
    \/ (direction(b1, b2, a1)[1] = 0 /\ on_segment(b1, b2, a1))
    \/ (direction(b1, b2, a2)[1] = 0 /\ on_segment(b1, b2, a2))
    \/ crossing(direction(a1, a2, b1), direction(a1, a2, b2),
                direction(b1, b2, a1), direction(b1, b2, a2))

rect_points(rect) ==
    <<Point(rect.x, rect.y),
      Point(plus(rect.x, rect.width), rect.y),
      Point(plus(rect.x, rect.width), plus(rect.y, rect.height)),
      Point(rect.x, plus(rect.y, rect.height))>>

segment_intersects_rect(from, to, rect) ==
    \/ point_in_rect(from, rect)
    \/ point_in_rect(to, rect)
    \/ \E index \in 0..3 :
           segments_intersect(from, to, rect_points(rect)[index + 1],
                              rect_points(rect)[((index + 1) % 4) + 1])

line_hits_obstacle(from, to, obstacles, allow_from_inside, allow_to_inside) ==
    \E i \in DOMAIN obstacles :
        \/ (point_in_rect(from, obstacles[i]) /\ ~allow_from_inside)
        \/ (point_in_rect(to, obstacles[i]) /\ ~allow_to_inside)
        \/ segment_intersects_rect(from, to, obstacles[i])

resolve_quadratic_point(from, control, to, t) ==
    Point(plus(plus(times(times(minus(Num(1), t), minus(Num(1), t)), from.x),
                    times(times(times(Num(2), minus(Num(1), t)), t), control.x)),
               times(times(t, t), to.x)),
          plus(plus(times(times(minus(Num(1), t), minus(Num(1), t)), from.y),
                    times(times(times(Num(2), minus(Num(1), t)), t), control.y)),
               times(times(t, t), to.y)))

\* The loop runs while step <= samples: it ends for a finite number of
\* samples and for no other.
sampling_ends(samples) == is_finite(samples)

sample_quadratic(from, control, to, samples) ==
    [k \in 1..((samples[1] \div samples[2]) + 1) |->
        resolve_quadratic_point(from, control, to, over(Num(k - 1), samples))]

members_at(point, obstacles) ==
    {i \in DOMAIN obstacles : point_in_rect(point, obstacles[i])}

points_hit_obstacle(points, obstacles, allowed) ==
    \/ \E index \in 2..(Len(points) - 1) : members_at(points[index], obstacles) # {}
    \/ \E index \in 1..(Len(points) - 1) :
           line_hits_obstacle(points[index], points[index + 1], obstacles,
                              members_at(points[index], obstacles) \cap allowed # {},
                              members_at(points[index + 1], obstacles) \cap allowed # {})

curve_hits_obstacle(from, control, to, obstacles, samples) ==
    points_hit_obstacle(sample_quadratic(from, control, to, math_max(Num(3), samples)),
                        obstacles,
                        members_at(from, obstacles) \cup members_at(to, obstacles))

merge_route_metrics(source, updates, fallback_distance) ==
    [curvature |-> or_default(updates, "curvature", or_default(source, "curvature", Num(0))),
     distance |-> or_default(updates, "distance", or_default(source, "distance", fallback_distance)),
     from_alignment |-> or_default(updates, "from_alignment", or_default(source, "from_alignment", Num(0))),
     to_alignment |-> or_default(updates, "to_alignment", or_default(source, "to_alignment", Num(0))),
     average_alignment |-> or_default(updates, "average_alignment", or_default(source, "average_alignment", Num(0)))]

is_ignored(obstacle, ignore_ids) ==
    /\ Len(ignore_ids) > 0
    /\ "id" \in DOMAIN obstacle
    /\ obstacle.id # <<>>
    /\ \E i \in DOMAIN ignore_ids : ignore_ids[i] = obstacle.id

\* A plausible slip: only the ids to ignore filter, obstacles around an
\* endpoint stay.
filter_listed_obstacles(obstacles, from, to, ignore_ids) ==
    SelectSeq(obstacles, LAMBDA obstacle : ~is_ignored(obstacle, ignore_ids))

filter_endpoint_obstacles(obstacles, from, to, ignore_ids) ==
    SelectSeq(obstacles,
              LAMBDA obstacle :
                  /\ ~is_ignored(obstacle, ignore_ids)
                  /\ (Len(ignore_ids) = 0) =>
                         (~point_in_rect(from, obstacle) /\ ~point_in_rect(to, obstacle)))

\* What a call gives: the route returned and the number of shifted
\* candidates tried, or no return at all.
Routed(route, tried) == [route |-> route, tried |-> tried, returns |-> TRUE]

NeverReturns(samples) == [returns |-> FALSE, samples |-> samples]

\* A candidate: the handles shifted along the perpendicular and the curve
\* through their midpoint.
shifted_route(c, shifted_handles, control, metrics) ==
    [kind |-> "quadratic",
     path |-> build_quadratic_path(c.from.position, control, c.to.position),
     control |-> control, handles |-> shifted_handles, metrics |-> metrics]

candidate(c, handles, perpendicular, offset, metrics) ==
    shifted_route(c, shift_handles(handles, perpendicular, offset),
                  compute_control(shift_handles(handles, perpendicular, offset).from,
                                  shift_handles(handles, perpendicular, offset).to),
                  metrics)

candidate_hits(c, route, effective_obstacles) ==
    curve_hits_obstacle(c.from.position, route.control, c.to.position,
                        effective_obstacles, c.obstacle_samples)

projection_along_line(perpendicular, control, base_control) ==
    math_abs(plus(times(perpendicular.y, minus(control.x, base_control.x)),
                  times(negative(perpendicular.x), minus(control.y, base_control.y))))

projection_of(perpendicular, control, base_control) ==
    math_abs(plus(times(perpendicular.x, minus(control.x, base_control.x)),
                  times(perpendicular.y, minus(control.y, base_control.y))))

Directions == <<Num(1), Num(0 - 1)>>

\* The extended scan: for each direction, the scales from the largest
\* attempt scale up to three times it in steps of a half.  It returns the
\* first candidate that hits nothing, or else the candidate kept as the
\* fallback, with the number of candidates tried.
RECURSIVE scan(_, _, _, _, _, _, _, _, _, _, _)
RECURSIVE scan_step(_, _, _, _, _, _, _, _, _, _, _, _)
scan(c, effective_obstacles, handles, perpendicular, base, base_control, metrics, d, scale, fallback, tried) ==
    IF d > Len(Directions) THEN Routed(fallback.route, tried)
    ELSE IF ~at_most(scale, times(OBSTACLE_SHIFT_MAX_SCALE, OBSTACLE_SHIFT_FALLBACK_MULTIPLIER))
    THEN scan(c, effective_obstacles, handles, perpendicular, base, base_control, metrics,
              d + 1, OBSTACLE_SHIFT_MAX_SCALE, fallback, tried)
    ELSE IF times(scale, Directions[d]) = Num(0)
    THEN scan(c, effective_obstacles, handles, perpendicular, base, base_control, metrics,
              d, plus(scale, OBSTACLE_SHIFT_FALLBACK_STEP), fallback, tried)
    ELSE scan_step(c, effective_obstacles, handles, perpendicular, base, base_control, metrics,
                   d, scale, fallback, tried,
                   candidate(c, handles, perpendicular,
                             times(base, times(scale, Directions[d])), metrics))

scan_step(c, effective_obstacles, handles, perpendicular, base, base_control, metrics, d, scale, fallback, tried, route) ==
    IF ~candidate_hits(c, route, effective_obstacles)
    THEN Routed(route, tried + 1)
    ELSE scan(c, effective_obstacles, handles, perpendicular, base, base_control, metrics,
              d, plus(scale, OBSTACLE_SHIFT_FALLBACK_STEP),
              IF less(fallback.projection,
                      projection_of(perpendicular, route.control, base_control))
              THEN [route |-> route,
                    projection |-> projection_of(perpendicular, route.control, base_control)]
              ELSE fallback,
              tried + 1)

\* The fixed attempts in their order, then the extended scan.
RECURSIVE shift_attempts(_, _, _, _, _, _, _, _)
shift_attempts(c, effective_obstacles, handles, perpendicular, base, base_control, metrics, k) ==
    IF k > Len(OBSTACLE_SHIFT_ATTEMPTS)
    THEN scan(c, effective_obstacles, handles, perpendicular, base, base_control, metrics,
              1, OBSTACLE_SHIFT_MAX_SCALE, [route |-> c.route, projection |-> Num(0)], k - 1)
    ELSE IF ~candidate_hits(c,
                            candidate(c, handles, perpendicular,
                                      times(times(base, OBSTACLE_SHIFT_ATTEMPTS[k].scale),
                                            OBSTACLE_SHIFT_ATTEMPTS[k].direction),
                                      metrics),
                            effective_obstacles)
    THEN Routed(candidate(c, handles, perpendicular,
                              times(times(base, OBSTACLE_SHIFT_ATTEMPTS[k].scale),
                                    OBSTACLE_SHIFT_ATTEMPTS[k].direction),
                              metrics),
                k)
    ELSE shift_attempts(c, effective_obstacles, handles, perpendicular, base, base_control,
                        metrics, k + 1)

perpendicular_of(unit) == Point(negative(unit.y), unit.x)

effective_obstacles_of(c) ==
    filter_endpoint_obstacles(expand_obstacles(c.obstacles, c.obstacle_padding),
                              c.from.position, c.to.position, c.ignore_ids)

detour_curvature(c) == math_max(c.resolved_curvature, Rat(45, 100))

detour_handles(c) ==
    compute_handles(c.from, c.to, normalize(c.from.normal), normalize(c.to.normal),
                    c.distance, detour_curvature(c), c.min_handle, c.handle_ratio)

detour_base(c) ==
    math_max(math_max(times(c.distance, OBSTACLE_SHIFT_MULTIPLIER), c.min_handle),
             times(c.obstacle_padding, Num(2)))

reroute_line_shifted(c, effective_obstacles, handles) ==
    shift_attempts(c, effective_obstacles, handles, perpendicular_of(c.unit),
                   detour_base(c), compute_control(handles.from, handles.to),
                   merge_route_metrics(c.route.metrics, [curvature |-> detour_curvature(c)],
                                       c.distance),
                   1)

reroute_line_among(c, effective_obstacles) ==
    IF ~line_hits_obstacle(c.from.position, c.to.position, effective_obstacles, FALSE, FALSE)
    THEN Routed(c.route, 0)
    ELSE IF ~sampling_ends(math_max(Num(3), c.obstacle_samples)) THEN NeverReturns(math_max(Num(3), c.obstacle_samples))
    ELSE reroute_line_shifted(c, effective_obstacles, detour_handles(c))

reroute_line(c) ==
    IF Len(c.obstacles) = 0 THEN Routed(c.route, 0)
    ELSE reroute_line_among(c, effective_obstacles_of(c))

route_handles(c) ==
    or_default(c.route, "handles", [from |-> c.route.control, to |-> c.route.control])

shift_base(c) ==
    math_max(math_max(c.min_handle, times(c.distance, Rat(35, 100))),
             times(c.obstacle_padding, Num(2)))

\* A plausible slip: the test of the curve is the wrong way round.
quadratic_is_clear_when_hit(c, effective_obstacles) ==
    /\ curve_hits_obstacle(c.from.position, c.route.control, c.to.position,
                           effective_obstacles, c.obstacle_samples)
    /\ ~line_hits_obstacle(c.from.position, c.to.position, effective_obstacles,
                           FALSE, FALSE)

\* Neither the curve nor the straight line between the anchors
\* (base_intersects) hits an obstacle.
quadratic_is_clear(c, effective_obstacles) ==
    /\ ~curve_hits_obstacle(c.from.position, c.route.control, c.to.position,
                            effective_obstacles, c.obstacle_samples)
    /\ ~line_hits_obstacle(c.from.position, c.to.position, effective_obstacles,
                            FALSE, FALSE)

adjust_quadratic_among(c, effective_obstacles) ==
    IF ~sampling_ends(math_max(Num(3), c.obstacle_samples)) THEN NeverReturns(math_max(Num(3), c.obstacle_samples))
    ELSE IF quadratic_is_clear(c, effective_obstacles)
    THEN Routed(c.route, 0)
    ELSE shift_attempts(c, effective_obstacles, route_handles(c), perpendicular_of(c.unit),
                        shift_base(c), c.route.control,
                        merge_route_metrics(c.route.metrics,
                                            [curvature |->
                                                math_max(or_default(c.route.metrics, "curvature", Num(0)),
                                                         c.resolved_curvature)],
                                            c.distance),
                        1)

adjust_quadratic(c) ==
    IF "control" \notin DOMAIN c.route THEN Routed(c.route, 0)
    ELSE adjust_quadratic_among(c, effective_obstacles_of(c))

avoid_obstacles(c) ==
    IF c.route.kind = "line" THEN reroute_line(c)
    ELSE IF c.route.kind = "quadratic" /\ "control" \in DOMAIN c.route THEN adjust_quadratic(c)
    ELSE Routed(c.route, 0)

route_metrics(curvature, distance, from_alignment, to_alignment, average_alignment) ==
    [curvature |-> curvature, distance |-> distance, from_alignment |-> from_alignment,
     to_alignment |-> to_alignment, average_alignment |-> average_alignment]

\* Number.EPSILON is 2^-52; no positive number of the model is that small.
within_epsilon(value) == at_most(value, Num(0))

line_route(from, to, metrics) ==
    [kind |-> "line", path |-> build_line_path(from.position, to.position),
     metrics |-> metrics]

quadratic_route(from, to, handles, metrics) ==
    [kind |-> "quadratic",
     path |-> build_quadratic_path(from.position, compute_control(handles.from, handles.to),
                                   to.position),
     control |-> compute_control(handles.from, handles.to),
     handles |-> handles, metrics |-> metrics]

is_straight_below_threshold(distance, metrics) ==
    \/ within_epsilon(metrics.curvature)
    \/ /\ less(distance, STRAIGHT_DISTANCE_THRESHOLD)
       /\ at_most(STRAIGHT_ALIGNMENT_THRESHOLD, metrics.from_alignment)
       /\ at_most(STRAIGHT_ALIGNMENT_THRESHOLD, metrics.to_alignment)
    \/ /\ at_most(STRAIGHT_ALIGNMENT_THRESHOLD, metrics.average_alignment)
       /\ less(metrics.curvature, STRAIGHT_CURVATURE_THRESHOLD)

\* The conditions of the straight line.
is_straight(distance, metrics) ==
    \/ within_epsilon(metrics.curvature)
    \/ /\ at_most(distance, STRAIGHT_DISTANCE_THRESHOLD)
       /\ at_most(STRAIGHT_ALIGNMENT_THRESHOLD, metrics.from_alignment)
       /\ at_most(STRAIGHT_ALIGNMENT_THRESHOLD, metrics.to_alignment)
    \/ /\ at_most(STRAIGHT_ALIGNMENT_THRESHOLD, metrics.average_alignment)
       /\ less(metrics.curvature, STRAIGHT_CURVATURE_THRESHOLD)

chosen_route(from, to, options, distance, from_normal, to_normal, metrics) ==
    IF is_straight(distance, metrics)
    THEN line_route(from, to, [metrics EXCEPT !.curvature = Num(0)])
    ELSE quadratic_route(from, to,
                         compute_handles(from, to, from_normal, to_normal, distance,
                                         metrics.curvature,
                                         or_default(options, "min_handle", DEFAULT_MIN_HANDLE),
                                         or_default(options, "handle_ratio", DEFAULT_HANDLE_RATIO)),
                         metrics)

resolved_curvature_of(base_curvature, misalignment, distance_factor) ==
    clamp01(plus(plus(times(base_curvature,
                            plus(Rat(35, 100), times(misalignment, Rat(65, 100)))),
                      times(misalignment, Rat(45, 100))),
                 times(distance_factor, Rat(2, 10))))

metrics_of(options, distance, from_alignment, to_alignment) ==
    route_metrics(
        resolved_curvature_of(
            clamp01(or_default(options, "curvature", DEFAULT_CURVATURE)),
            minus(Num(1), clamp01(over(plus(from_alignment, to_alignment), Num(2)))),
            clamp01(over(minus(distance, STRAIGHT_DISTANCE_THRESHOLD), CURVATURE_DISTANCE_RANGE))),
        distance, from_alignment, to_alignment,
        clamp01(over(plus(from_alignment, to_alignment), Num(2))))

obstacle_context(from, to, options, distance, unit, from_normal, to_normal, resolved_curvature, route) ==
    [from |-> from, to |-> to, route |-> route, distance |-> distance, unit |-> unit,
     from_normal |-> from_normal, to_normal |-> to_normal,
     min_handle |-> or_default(options, "min_handle", DEFAULT_MIN_HANDLE),
     handle_ratio |-> or_default(options, "handle_ratio", DEFAULT_HANDLE_RATIO),
     resolved_curvature |-> resolved_curvature,
     obstacles |-> options.obstacles,
     obstacle_padding |-> or_default(options, "obstacle_padding", DEFAULT_OBSTACLE_PADDING),
     obstacle_samples |-> or_default(options, "obstacle_samples", DEFAULT_OBSTACLE_SAMPLES),
     ignore_ids |-> or_default(options, "ignore_obstacle_ids", <<>>)]

route_around(from, to, options, distance, unit, from_normal, to_normal, resolved_curvature, route) ==
    IF "obstacles" \in DOMAIN options /\ Len(options.obstacles) > 0
    THEN avoid_obstacles(obstacle_context(from, to, options, distance, unit, from_normal,
                                          to_normal, resolved_curvature, route))
    ELSE Routed(route, 0)

route_with_metrics(from, to, options, distance, unit, from_normal, to_normal, metrics) ==
    route_around(from, to, options, distance, unit, from_normal, to_normal, metrics.curvature,
                 chosen_route(from, to, options, distance, from_normal, to_normal, metrics))

route_along(from, to, options, distance, unit, from_normal, to_normal) ==
    route_with_metrics(from, to, options, distance, unit, from_normal, to_normal,
                       metrics_of(options, distance, dot(from_normal, unit),
                                  negative(dot(to_normal, unit))))

route_at_distance(from, to, options, delta, distance) ==
    IF ~is_finite(distance) \/ distance = Num(0)
    THEN Routed(line_route(from, to,
                           route_metrics(Num(0), distance, Num(0), Num(0), Num(0))),
                0)
    ELSE route_along(from, to, options, distance,
                     Point(over(delta.x, distance), over(delta.y, distance)),
                     normalize(from.normal), normalize(to.normal))

\* route_edge with the number of shifted candidates it tried.
route_edge_tried(from, to, options) ==
    route_at_distance(from, to, options,
                      Point(minus(to.position.x, from.position.x),
                            minus(to.position.y, from.position.y)),
                      math_hypot(minus(to.position.x, from.position.x),
                                 minus(to.position.y, from.position.y)))

route_edge(from, to, options) == route_edge_tried(from, to, options).route

\* ---------------------------------------------------------------------
\* The caller of route_edge: the anchors and options are given at the
\* start, and the one call routes them.
\* ---------------------------------------------------------------------

MaxObstacles == 2

\* The turns of a loop that does not end that the model follows.
MaxSamplingSteps == 2

Anchor(px, py, nx, ny) ==
    [position |-> Point(Num(px), Num(py)), normal |-> Point(Num(nx), Num(ny))]

\* Pairs of anchors with obstacles around: facing each other far apart
\* and closely, and normals pointing the same way.
ScenePairs ==
    {<<Anchor(0, 0, 1, 0), Anchor(200, 0, 0 - 1, 0)>>,
     <<Anchor(0, 0, 1, 0), Anchor(24, 0, 0 - 1, 0)>>,
     <<Anchor(0, 0, 0, 1), Anchor(200, 0, 0, 1)>>}

\* More pairs: the same position twice, normals a little off the
\* connecting line, a slanted connecting line, normals further off the
\* line, a distance just above the straight-line threshold, and facing
\* anchors far apart.
AnchorPairs ==
    ScenePairs \cup
    {<<Anchor(0, 0, 1, 0), Anchor(0, 0, 0 - 1, 0)>>,
     <<Anchor(0, 0, 12, 5), Anchor(32, 0, 0 - 12, 5)>>,
     <<Anchor(0, 0, 3, 4), Anchor(12, 16, 0 - 3, 0 - 4)>>,
     <<Anchor(0, 0, 4, 3), Anchor(24, 0, 0 - 4, 3)>>,
     <<Anchor(0, 0, 1, 0), Anchor(40, 0, 0 - 1, 0)>>,
     <<Anchor(0, 0, 1, 0), Anchor(272, 0, 0 - 1, 0)>>}

Obstacle(id, x, y, width, height) ==
    [id |-> id, x |-> Num(x), y |-> Num(y), width |-> Num(width), height |-> Num(height)]

id_blocker == <<"b">>
id_narrow == <<"n">>
id_upper == <<"u">>
id_wall == <<"w">>
id_home == <<"h">>
id_empty == <<>>
id_far == <<"f">>

\* Rectangles on and near the line from (0, 0) to (200, 0): the blocker
\* of the repository's test, a narrow one across the line, one above the
\* line, a wall no candidate gets around, one around the from position,
\* one on the line whose id is the empty string, and one far from every
\* path.
ObstacleInputs ==
    <<Obstacle(id_blocker, 80, 0 - 32, 72, 64),
      Obstacle(id_narrow, 95, 0 - 28, 10, 56),
      Obstacle(id_upper, 95, 0 - 5, 10, 65),
      Obstacle(id_wall, 95, 0 - 400, 10, 800),
      Obstacle(id_home, 0 - 10, 0 - 10, 20, 20),
      Obstacle(id_empty, 10, 0 - 4, 8, 8),
      Obstacle(id_far, 95, 200, 10, 10)>>

\* The lists of at most n of the rectangles from the k-th on, in order.
RECURSIVE lists_from(_, _)
lists_from(k, n) ==
    IF k > Len(ObstacleInputs) \/ n = 0 THEN {<<>>}
    ELSE lists_from(k + 1, n) \cup
         {<<ObstacleInputs[k]>> \o list : list \in lists_from(k + 1, n - 1)}

ObstacleLists == lists_from(1, MaxObstacles) \ {<<>>}

ids_of(obstacles) == [i \in DOMAIN obstacles |-> obstacles[i].id]

\* An option is given or left out.
Given(member, values) == {<<>>} \cup {[m \in {member} |-> value] : value \in values}

PlainOptions ==
    {curvature @@ min_handle @@ handle_ratio :
        curvature \in Given("curvature", {Num(0), Num(1)}),
        min_handle \in Given("min_handle", {Num(8)}),
        handle_ratio \in Given("handle_ratio", {Rat(1, 2)})}

OptionsAround(obstacles) ==
    {curvature @@ samples @@ padding @@ ignore @@ [obstacles |-> obstacles] :
        curvature \in Given("curvature", {Num(0)}),
        samples \in Given("obstacle_samples", {Num(3), Infinity}),
        padding \in Given("obstacle_padding", IF Len(obstacles) = 1 THEN {Num(0)} ELSE {}),
        ignore \in Given("ignore_obstacle_ids", {ids_of(obstacles), <<id_blocker>>})}

RouteInput(pair, options) == [from |-> pair[1], to |-> pair[2], options |-> options]

RouteInputs ==
    {RouteInput(pair, options) : pair \in AnchorPairs, options \in PlainOptions} \cup
    {RouteInput(pair, options) :
        pair \in ScenePairs,
        options \in UNION {OptionsAround(obstacles) : obstacles \in ObstacleLists}}

InitRouting ==
    /\ heap = <<create_graph>>
    /\ counters = EmptyMap
    /\ graph = 1
    /\ NoSession
    /\ NoLayer
    /\ NoSelection
    /\ last \in {[op |-> "given", arg |-> input] : input \in RouteInputs}

WithoutObstacles(options) == [m \in (DOMAIN options) \ {"obstacles"} |-> options[m]]

\* The obstacles of a call whose padded rectangle holds an endpoint.
Padded(arg) ==
    expand_obstacles(or_default(arg.options, "obstacles", <<>>),
                     or_default(arg.options, "obstacle_padding", DEFAULT_OBSTACLE_PADDING))

AroundEndpoint(arg, at) ==
    \/ point_in_rect(arg.from.position, Padded(arg)[at])
    \/ point_in_rect(arg.to.position, Padded(arg)[at])

\* The options with obstacle number at taken out of the list.
WithoutObstacle(options, at) ==
    [options EXCEPT !.obstacles = SubSeq(@, 1, at - 1) \o SubSeq(@, at + 1, Len(@))]

\* What the call gives with obstacle number at taken out.
RouteWithout(arg, at) ==
    LET r == route_edge_tried(arg.from, arg.to, WithoutObstacle(arg.options, at))
    IN  IF r.returns THEN [returns |-> TRUE, route |-> r.route] ELSE [returns |-> FALSE]

\* The same for every obstacle around an endpoint.
RoutesWithout(arg) ==
    [at \in 1..Len(or_default(arg.options, "obstacles", <<>>)) |->
        IF AroundEndpoint(arg, at) THEN RouteWithout(arg, at) ELSE [returns |-> FALSE]]

\* The call returns when every loop it runs ends, and stays in the loop
\* of sample_quadratic otherwise.  Kept with the route returned: the
\* route of the same anchors with no obstacles supplied, the routes with
\* an obstacle around an endpoint taken out, and the number of shifted
\* candidates tried.
Routes(r) ==
    /\ last' = IF r.returns
               THEN [op |-> "route_edge", arg |-> last.arg, route |-> r.route,
                     tried |-> r.tried,
                     plain |-> route_edge(last.arg.from, last.arg.to,
                                          WithoutObstacles(last.arg.options)),
                     without |-> RoutesWithout(last.arg)]
               ELSE [op |-> "sample_quadratic", arg |-> last.arg, samples |-> r.samples,
                     step |-> 0]
    /\ UNCHANGED <<heap, counters, graph>>
    /\ UNCHANGED hvars /\ UNCHANGED lvars
    /\ UNCHANGED svars

RouteEdge ==
    /\ last.op = "given"
    /\ Routes(route_edge_tried(last.arg.from, last.arg.to, last.arg.options))

\* One turn of the loop of sample_quadratic in a call that stays in it.
SampleQuadratic ==
    /\ last.op = "sample_quadratic"
    /\ last.step < MaxSamplingSteps
    /\ at_most(Num(last.step), last.samples)
    /\ last' = [last EXCEPT !.step = @ + 1]
    /\ UNCHANGED <<heap, counters, graph>>
    /\ UNCHANGED hvars /\ UNCHANGED lvars
    /\ UNCHANGED svars

NextRouting == RouteEdge \/ SampleQuadratic

SpecRouting == InitRouting /\ [][NextRouting]_vars

\* ---------------------------------------------------------------------
\* Properties of routing.
\* ---------------------------------------------------------------------

RouteReturned == last.op = "route_edge"

\* The route chosen before obstacles are looked at: the route of the
\* same anchors with no obstacles supplied.
ChosenRoute == last.plain

Supplied == or_default(last.arg.options, "obstacles", <<>>)

\* The context of the avoidance of the call.
ContextOf(chosen) ==
    obstacle_context(last.arg.from, last.arg.to, last.arg.options, chosen.metrics.distance,
                     Point(over(minus(last.arg.to.position.x, last.arg.from.position.x),
                                chosen.metrics.distance),
                           over(minus(last.arg.to.position.y, last.arg.from.position.y),
                                chosen.metrics.distance)),
                     normalize(last.arg.from.normal), normalize(last.arg.to.normal),
                     metrics_of(last.arg.options, chosen.metrics.distance,
                                chosen.metrics.from_alignment,
                                chosen.metrics.to_alignment).curvature,
                     chosen)

Context == ContextOf(ChosenRoute)

\* The padded obstacles that are neither ignored nor around an endpoint.
EffectiveObstacles == effective_obstacles_of(Context)

ChosenHits ==
    /\ Supplied # <<>>
    /\ IF ChosenRoute.kind = "line"
       THEN line_hits_obstacle(last.arg.from.position, last.arg.to.position,
                               EffectiveObstacles, FALSE, FALSE)
       ELSE curve_hits_obstacle(last.arg.from.position, ChosenRoute.control,
                                last.arg.to.position, EffectiveObstacles,
                                Context.obstacle_samples)

\* The candidate shifted by the signed scale times the shift base.
ShiftedBy(signed_scale) ==
    IF ChosenRoute.kind = "line"
    THEN candidate(Context, detour_handles(Context), perpendicular_of(Context.unit),
                   times(detour_base(Context), signed_scale), ChosenRoute.metrics)
    ELSE candidate(Context, route_handles(Context), perpendicular_of(Context.unit),
                   times(shift_base(Context), signed_scale), ChosenRoute.metrics)

\* The sampled curve of the candidate lies outside every effective obstacle.
Clear(signed_scale) == ~candidate_hits(Context, ShiftedBy(signed_scale), EffectiveObstacles)

IsCandidate(route, signed_scale) ==
    /\ route.kind = "quadratic"
    /\ route.control = ShiftedBy(signed_scale).control
    /\ route.path = ShiftedBy(signed_scale).path
    /\ route.handles = ShiftedBy(signed_scale).handles

FixedScales == <<Num(1), Num(0 - 1), Rat(3, 2), Rat(0 - 3, 2)>>

ScannedScales ==
    {Rat(sign * halves, 2) : sign \in {1, 0 - 1}, halves \in 3..9}

OriginalControl ==
    IF ChosenRoute.kind = "line"
    THEN compute_control(detour_handles(Context).from, detour_handles(Context).to)
    ELSE ChosenRoute.control

\* How far the control point of a route lies from the original one.
Displacement(route) ==
    math_hypot(minus(route.control.x, OriginalControl.x),
               minus(route.control.y, OriginalControl.y))

NoneClear ==
    /\ \A k \in DOMAIN FixedScales : ~Clear(FixedScales[k])
    /\ \A s \in ScannedScales : ~Clear(s)

\* C22: when the chosen path hits an obstacle and no fixed attempt and no
\* candidate of the extended scan is clear, the route returned is a
\* quadratic: a candidate of the scan, and none of the scan lies further
\* from the original control point.
ExhaustedReturnsFarthest ==
    (RouteReturned /\ ChosenHits /\ NoneClear) =>
        /\ last.route.kind = "quadratic"
        /\ \E s \in ScannedScales : IsCandidate(last.route, s)
        /\ \A s \in ScannedScales :
               at_most(Displacement(ShiftedBy(s)), Displacement(last.route))

\* A straight line was chosen, it hits an obstacle, and no candidate is clear.
ExhaustedReturnsFarthestWitness ==
    /\ RouteReturned
    /\ ChosenHits
    /\ ChosenRoute.kind = "line"
    /\ NoneClear

\* C23: when the chosen path hits an effective obstacle, the route
\* returned is the first of the candidates +1, -1, +1.5, -1.5 times the
\* shift base that is clear.
FirstClearAttemptReturned ==
    (RouteReturned /\ ChosenHits) =>
        \A k \in DOMAIN FixedScales :
            (Clear(FixedScales[k]) /\ \A j \in 1..(k - 1) : ~Clear(FixedScales[j]))
                => IsCandidate(last.route, FixedScales[k])

\* The first two candidates hit an obstacle and the third is returned.
FirstClearAttemptReturnedWitness ==
    /\ RouteReturned
    /\ ChosenHits
    /\ ~Clear(FixedScales[1])
    /\ ~Clear(FixedScales[2])
    /\ Clear(FixedScales[3])
    /\ Clear(FixedScales[4])
    /\ IsCandidate(last.route, FixedScales[3])

\* The distance of the anchors and the alignment of each normal with the
\* connecting line, from the anchors given.
DeltaGiven ==
    Point(minus(last.arg.to.position.x, last.arg.from.position.x),
          minus(last.arg.to.position.y, last.arg.from.position.y))

DistanceGiven == math_hypot(DeltaGiven.x, DeltaGiven.y)

UnitGiven == Point(over(DeltaGiven.x, DistanceGiven), over(DeltaGiven.y, DistanceGiven))

FromAlignment == dot(normalize(last.arg.from.normal), UnitGiven)

ToAlignment == negative(dot(normalize(last.arg.to.normal), UnitGiven))

IsLineBetweenAnchors(route) ==
    /\ route.kind = "line"
    /\ route.path = <<"M", last.arg.from.position.x, last.arg.from.position.y,
                     "L", last.arg.to.position.x, last.arg.to.position.y>>
    /\ route.metrics.curvature = Num(0)

CloseAndAligned ==
    /\ less(Num(0), DistanceGiven)
    /\ at_most(DistanceGiven, Num(32))
    /\ at_most(Rat(9, 10), FromAlignment)
    /\ at_most(Rat(9, 10), ToAlignment)

\* C24: with no obstacles, anchors at a distance of at most 32 whose
\* alignments are both at least 0.9, and anchors at distance 0, get the
\* straight line from the from position to the to position with
\* curvature 0.
CloseAlignedAnchorsGetLine ==
    (RouteReturned /\ Supplied = <<>>) =>
        /\ (DistanceGiven = Num(0)) => IsLineBetweenAnchors(last.route)
        /\ (DistanceGiven # Num(0) /\ CloseAndAligned) => IsLineBetweenAnchors(last.route)

\* Anchors at distance 32 with normals off the connecting line, routed
\* with the largest curvature option.
CloseAlignedAnchorsGetLineWitness ==
    /\ RouteReturned
    /\ Supplied = <<>>
    /\ DistanceGiven = Num(32)
    /\ CloseAndAligned
    /\ less(FromAlignment, Num(1))
    /\ or_default(last.arg.options, "curvature", Num(0)) = Num(1)
    /\ IsLineBetweenAnchors(last.route)


\* ---------------------------------------------------------------------
\* Ignored obstacles.
\* ---------------------------------------------------------------------

IgnoreIds == or_default(last.arg.options, "ignore_obstacle_ids", <<>>)

Listed(id) == \E at \in 1..Len(IgnoreIds) : IgnoreIds[at] = id

AllSuppliedListed ==
    /\ Supplied # <<>>
    /\ \A at \in 1..Len(Supplied) : Listed(Supplied[at].id)

SameKindAndPath(route, other) == route.kind = other.kind /\ route.path = other.path

\* C25: when the id of every supplied obstacle is listed in
\* ignore_obstacle_ids, route_edge returns the route (kind and path) it
\* returns for the same anchors with no obstacles supplied.
AllIgnoredRoutesAsUnobstructed ==
    (RouteReturned /\ AllSuppliedListed) => SameKindAndPath(last.route, last.plain)

\* ---------------------------------------------------------------------
\* Termination and the number of candidates.
\* ---------------------------------------------------------------------

\* The fixed attempts and the scales of the extended scan in both
\* directions.
ShiftedCandidates == Len(FixedScales) + Cardinality(ScannedScales)

\* A call in the loop of sample_quadratic leaves it when the number of
\* samples is finite: step grows by one in every turn.
LeavesSampling == last.op = "sample_quadratic" => sampling_ends(last.samples)

\* C27: route_edge terminates for every input, and the avoidance
\* evaluates at most the 4 fixed attempts and the 7 scales of the
\* extended scan in 2 directions, whatever the obstacles.
RouteEdgeReturnsAfterBoundedCandidates ==
    /\ LeavesSampling
    /\ RouteReturned => last.tried <= ShiftedCandidates


\* ---------------------------------------------------------------------
\* Port geometry (src/react/ports.ts)
\* ---------------------------------------------------------------------

\* The ports of the nodes the geometry is computed for.
MaxPorts == 3

\* group_ports_by_side: the groups in the order their sides first occur,
\* each with its ports in their order in the node; a port whose id is
\* falsy is passed over.
has_id(port) == "id" \in DOMAIN port /\ port.id # <<>>

group_place(groups, side) ==
    IF \E at \in 1..Len(groups) : groups[at].side = side
    THEN CHOOSE at \in 1..Len(groups) : groups[at].side = side
    ELSE 0

group_push(groups, port) ==
    IF group_place(groups, port.side) = 0
    THEN Append(groups, [side |-> port.side, ports |-> <<port>>])
    ELSE [groups EXCEPT ![group_place(groups, port.side)].ports = Append(@, port)]

RECURSIVE group_ports_from(_, _, _)
group_ports_from(ports, k, groups) ==
    IF k > Len(ports) THEN groups
    ELSE group_ports_from(ports, k + 1,
                          IF has_id(ports[k]) THEN group_push(groups, ports[k]) ELSE groups)

group_ports_by_side(ports) == group_ports_from(ports, 1, <<>>)

\* [...ports].sort((a, b) => (a.index ?? 0) - (b.index ?? 0)): the sort
\* is stable, ports of one index keep their order.
index_of(port) == or_default(port, "index", 0)

RECURSIVE insert_by_index(_, _)
insert_by_index(sorted, port) ==
    IF sorted = <<>> THEN <<port>>
    ELSE IF index_of(sorted[Len(sorted)]) - index_of(port) > 0
         THEN Append(insert_by_index(SubSeq(sorted, 1, Len(sorted) - 1), port),
                     sorted[Len(sorted)])
         ELSE Append(sorted, port)

RECURSIVE sort_from(_, _, _)
sort_from(ports, k, sorted) ==
    IF k > Len(ports) THEN sorted
    ELSE sort_from(ports, k + 1, insert_by_index(sorted, ports[k]))

sort_by_index(ports) == sort_from(ports, 1, <<>>)

\* A plausible slip: the ratio of the 0-based place.
port_ratio_of_place(index, total) == IF total > 0 THEN Rat(index, total + 1) ELSE Rat(1, 2)

port_ratio(index, total) == IF total > 0 THEN Rat(index + 1, total + 1) ELSE Rat(1, 2)

side_offset(side, ratio, width, height) ==
    CASE side = "top" -> Point(times(width, ratio), Num(0))
      [] side = "bottom" -> Point(times(width, ratio), height)
      [] side = "left" -> Point(Num(0), times(height, ratio))
      [] OTHER -> Point(width, times(height, ratio))

side_normal(side) ==
    CASE side = "top" -> Point(Num(0), Num(0 - 1))
      [] side = "bottom" -> Point(Num(0), Num(1))
      [] side = "left" -> Point(Num(0 - 1), Num(0))
      [] OTHER -> Point(Num(1), Num(0))

geometry_at(node, port, index, total, offset, normal) ==
    [node |-> node, port |-> port, index |-> index, total |-> total,
     offset |-> offset,
     position |-> Point(plus(node.x, offset.x), plus(node.y, offset.y)),
     normal |-> normal]

resolve_port_geometry(node, port, side, index, total, width, height) ==
    geometry_at(node, port, index, total,
                side_offset(side, port_ratio(index, total), width, height),
                side_normal(side))

\* result.set(port.id, geometry): an entry of the map, keyed by the id of
\* the port.
geometry_entry(id, geometry) == [id |-> id, value |-> geometry]

RECURSIVE set_sorted_from(_, _, _, _, _, _, _)
set_sorted_from(node, side, sorted, index, width, height, result) ==
    IF index >= Len(sorted) THEN result
    ELSE set_sorted_from(node, side, sorted, index + 1, width, height,
                         map_set(result,
                                 geometry_entry(sorted[index + 1].id,
                                                resolve_port_geometry(node, sorted[index + 1],
                                                                      side, index, Len(sorted),
                                                                      width, height))))

RECURSIVE set_groups_from(_, _, _, _, _, _)
set_groups_from(node, groups, k, width, height, result) ==
    IF k > Len(groups) THEN result
    ELSE set_groups_from(node, groups, k + 1, width, height,
                         set_sorted_from(node, groups[k].side, sort_by_index(groups[k].ports),
                                         0, width, height, result))

compute_node_port_geometries(node, options) ==
    set_groups_from(node, group_ports_by_side(node.ports), 1,
                    or_default(node, "w", options.default_width),
                    or_default(node, "h", options.default_height), <<>>)

\* The nodes of the calls: ports as add_node keeps them (an id each, no
\* id twice in a node, the empty string among the ids), of one index or
\* of several, and one port with no index; a box of the default size, of
\* a size given, or of no width or no height.
PortOn(id, side, index) == [id |-> id, side |-> side, kind |-> "in", index |-> index]

port_p == <<"p">>
port_q == <<"q">>
port_r == <<"r">>
port_unnamed == <<>>

PortChoices ==
    {PortOn(port_p, "top", 1), PortOn(port_p, "left", 0),
     PortOn(port_q, "top", 0), PortOn(port_q, "top", 1),
     PortOn(port_r, "top", 2), [id |-> port_r, side |-> "right", kind |-> "out"],
     PortOn(port_unnamed, "top", 0), PortOn(port_unnamed, "bottom", 0)}

RECURSIVE port_lists(_)
port_lists(n) ==
    IF n = 0 THEN {<<>>}
    ELSE port_lists(n - 1) \cup
         {Append(ports, port) :
              ports \in {shorter \in port_lists(n - 1) : Len(shorter) = n - 1},
              port \in PortChoices}

PortLists ==
    {ports \in port_lists(MaxPorts) :
         \A i, j \in 1..Len(ports) : i < j => ports[i].id # ports[j].id}

GeometryNodes ==
    {[id |-> <<"a">>, type |-> <<"t">>, x |-> Num(10), y |-> Num(0 - 20), ports |-> ports]
         @@ w @@ h :
         ports \in PortLists,
         w \in Given("w", {Num(0), Num(120)}),
         h \in Given("h", {Num(0), Num(90)})}

GeometryOptions == [default_width |-> Num(180), default_height |-> Num(104)]

InitPorts ==
    /\ heap = <<create_graph>>
    /\ counters = EmptyMap
    /\ graph = 1
    /\ NoSession
    /\ NoLayer
    /\ NoSelection
    /\ last \in {[op |-> "given", arg |-> node] : node \in GeometryNodes}

ComputeNodePortGeometries ==
    /\ last.op = "given"
    /\ last' = [op |-> "compute_node_port_geometries", arg |-> last.arg,
                geometries |-> compute_node_port_geometries(last.arg, GeometryOptions)]
    /\ UNCHANGED <<heap, counters, graph>>
    /\ UNCHANGED hvars /\ UNCHANGED lvars
    /\ UNCHANGED svars

NextPorts == ComputeNodePortGeometries

SpecPorts == InitPorts /\ [][NextPorts]_vars


\* ---------------------------------------------------------------------
\* Properties of port geometry.
\* ---------------------------------------------------------------------

Computed == last.op = "compute_node_port_geometries"

PortsGiven == last.arg.ports

BoxWidth == or_default(last.arg, "w", GeometryOptions.default_width)

BoxHeight == or_default(last.arg, "h", GeometryOptions.default_height)

SideLength(side) == IF side \in {"top", "bottom"} THEN BoxWidth ELSE BoxHeight

\* The ports of the node on the side of port k.
OnSide(k) == {j \in 1..Len(PortsGiven) : PortsGiven[j].side = PortsGiven[k].side}

\* Those of them that have an id other than the empty string.
NamedOnSide(k) == {j \in OnSide(k) : PortsGiven[j].id # <<>>}

\* Port j comes before port k in ascending index order; ports of one
\* index come in their order in the node.
Before(j, k) ==
    \/ index_of(PortsGiven[j]) < index_of(PortsGiven[k])
    \/ index_of(PortsGiven[j]) = index_of(PortsGiven[k]) /\ j < k

Place(k, among) == Cardinality({j \in among : Before(j, k)})

Along(side, ratio) == times(SideLength(side), ratio)

ExpectedOffset(side, ratio) ==
    CASE side = "top" -> Point(Along(side, ratio), Num(0))
      [] side = "bottom" -> Point(Along(side, ratio), BoxHeight)
      [] side = "left" -> Point(Num(0), Along(side, ratio))
      [] side = "right" -> Point(BoxWidth, Along(side, ratio))

Outward ==
    [top |-> Point(Num(0), Num(0 - 1)), bottom |-> Point(Num(0), Num(1)),
     left |-> Point(Num(0 - 1), Num(0)), right |-> Point(Num(1), Num(0))]

HasGeometry(k) == map_has(last.geometries, PortsGiven[k].id)

GeometryOf(k) == map_get(last.geometries, PortsGiven[k].id).value

\* Port k has the geometry of its place among the ports given.
Placed(k, among) ==
    /\ HasGeometry(k)
    /\ GeometryOf(k).offset =
           ExpectedOffset(PortsGiven[k].side,
                          Rat(Place(k, among) + 1, Cardinality(among) + 1))
    /\ GeometryOf(k).position = Point(plus(last.arg.x, GeometryOf(k).offset.x),
                                      plus(last.arg.y, GeometryOf(k).offset.y))
    /\ GeometryOf(k).normal = Outward[PortsGiven[k].side]

SamePosition(j, k) ==
    HasGeometry(j) /\ HasGeometry(k) /\ GeometryOf(j).position = GeometryOf(k).position

\* C26 as stated: on every side the n ports, in ascending index order,
\* get the offset at ratio (i+1)/(n+1) of the side's length, the position
\* of the node plus that offset and the outward normal of the side, and
\* no two ports of one side get the same position.
PortsSpreadAlongSide ==
    Computed =>
        \A k \in 1..Len(PortsGiven) :
            /\ Placed(k, OnSide(k))
            /\ \A j \in OnSide(k) \ {k} : ~SamePosition(j, k)

\* C26, amended: a port whose id is the empty string gets no geometry
\* and is not counted; on every side the n ports that have an id, in
\* ascending index order (ports of one index in their order in the
\* node), get the offset at ratio (i+1)/(n+1) of the side's length, the
\* position of the node plus that offset and the outward normal of the
\* side; two of them get the same position exactly when the length of
\* the side is 0.
NamedPortsSpreadAlongSide ==
    Computed =>
        \A k \in 1..Len(PortsGiven) :
            IF PortsGiven[k].id = <<>>
            THEN ~HasGeometry(k)
            ELSE /\ Placed(k, NamedOnSide(k))
                 /\ \A j \in NamedOnSide(k) \ {k} :
                        SamePosition(j, k) <=> (SideLength(PortsGiven[k].side) = Num(0))

NamedPortsSpreadAlongSideWitness ==
    /\ Computed
    /\ \E k \in 1..Len(PortsGiven) :
           /\ Cardinality(NamedOnSide(k)) = 2
           /\ OnSide(k) # NamedOnSide(k)
           /\ k \in NamedOnSide(k)
           /\ Place(k, NamedOnSide(k)) = 1
           /\ SideLength(PortsGiven[k].side) # Num(0)


\* ---------------------------------------------------------------------
\* The connect command: its result and its undo.
\* ---------------------------------------------------------------------

EdgeIdsOf(ref) == {heap[ref].edges[at].id : at \in DOMAIN heap[ref].edges}

\* The graph a logged call was made on.
GraphBefore(entry) ==
    IF "graph" \in DOMAIN entry.before THEN entry.before.graph
    ELSE entry.before.history.present

ConnectExecuted(entry) ==
    /\ entry.op = "execute"
    /\ Commands[entry.command].type = "connect"
    /\ entry.err = "none"

\* The edges an execution added to the graph.
AddedBy(entry) == EdgeIdsOf(entry.graph) \ EdgeIdsOf(GraphBefore(entry))

\* An undo of the History_state that called the undo of a connect command.
ConnectUndone(entry) ==
    /\ entry.op = "undo"
    /\ "undo_stack" \in DOMAIN entry.before
    /\ entry.before.undo_stack # <<>>
    /\ Commands[entry.before.undo_stack[Len(entry.before.undo_stack)].command].type = "connect"

\* The edges the execution that an undo takes back had added.
AddedByUndone(entry) ==
    EdgeIdsOf(entry.before.undo_stack[Len(entry.before.undo_stack)].graph_after)
        \ EdgeIdsOf(entry.before.undo_stack[Len(entry.before.undo_stack)].graph_before)

\* C28: every execution of a connect command's do returns the id of the
\* edge that this execution added, with or without an id given and also
\* when one command object is executed more than once; the command's
\* undo removes exactly that edge.
ConnectResultIsEdgeAdded ==
    \A at \in 1..Len(log) :
        /\ ConnectExecuted(log[at]) => AddedBy(log[at]) = {log[at].returned}
        /\ ConnectUndone(log[at]) =>
               EdgeIdsOf(log[at].graph) =
                   EdgeIdsOf(log[at].before.graph) \ AddedByUndone(log[at])


\* ---------------------------------------------------------------------
\* The snapshot history: undo and redo.
\* ---------------------------------------------------------------------

\* Call number at of the log is the call op on the Command_state.
StateCall(at, op) ==
    /\ at \in 1..Len(log)
    /\ log[at].op = op
    /\ "history" \in DOMAIN log[at].before

\* The snapshot history before and after call number at.
HistoryBefore(at) == log[at].before.history

HistoryAfter(at) == IF at = Len(log) THEN cstate.history ELSE log[at + 1].before.history

SameSnapshots(history, other) ==
    /\ history.past = other.past
    /\ history.present = other.present
    /\ history.future = other.future

NoOpsReturnHistoryGiven ==
    \A at \in 1..Len(log) :
        /\ (StateCall(at, "undo") /\ HistoryBefore(at).past = <<>>) =>
               HistoryAfter(at) = HistoryBefore(at)
        /\ (StateCall(at, "redo") /\ HistoryBefore(at).future = <<>>) =>
               HistoryAfter(at) = HistoryBefore(at)

CanUndoRedoTellPastFuture ==
    cstate # NoState =>
        /\ can_undo_snapshot(cstate.history) <=> cstate.history.past # <<>>
        /\ can_redo_snapshot(cstate.history) <=> cstate.history.future # <<>>

\* C29 as stated: undo followed by redo, and redo followed by undo, each
\* leave past, present and future as they were; undo with an empty past
\* and redo with an empty future return the history given; can_undo and
\* can_redo are true exactly when past and future are not empty.
UndoRedoLeaveHistory ==
    /\ \A at \in 1..Len(log) :
           /\ (StateCall(at, "undo") /\ StateCall(at + 1, "redo")) =>
                  SameSnapshots(HistoryAfter(at + 1), HistoryBefore(at))
           /\ (StateCall(at, "redo") /\ StateCall(at + 1, "undo")) =>
                  SameSnapshots(HistoryAfter(at + 1), HistoryBefore(at))
    /\ NoOpsReturnHistoryGiven
    /\ CanUndoRedoTellPastFuture

\* C29, amended: undo followed by redo leaves past, present and future
\* as they were when past is not empty, and redo followed by undo when
\* future is not empty; undo with an empty past and redo with an empty
\* future return the history given; can_undo and can_redo are true
\* exactly when past and future are not empty.
EffectiveUndoRedoLeaveHistory ==
    /\ \A at \in 1..Len(log) :
           /\ (StateCall(at, "undo") /\ StateCall(at + 1, "redo")
                   /\ HistoryBefore(at).past # <<>>) =>
                  SameSnapshots(HistoryAfter(at + 1), HistoryBefore(at))
           /\ (StateCall(at, "redo") /\ StateCall(at + 1, "undo")
                   /\ HistoryBefore(at).future # <<>>) =>
                  SameSnapshots(HistoryAfter(at + 1), HistoryBefore(at))
    /\ NoOpsReturnHistoryGiven
    /\ CanUndoRedoTellPastFuture

EffectiveUndoRedoLeaveHistoryWitness ==
    \E at \in 1..Len(log) :
        /\ StateCall(at, "undo")
        /\ StateCall(at + 1, "redo")
        /\ HistoryBefore(at).past # <<>>
        /\ HistoryBefore(at).future # <<>>


\* ---------------------------------------------------------------------
\* move_nodes on lists with absent and repeated ids.
\* ---------------------------------------------------------------------

MovedBy == last.op = "move_nodes" /\ (last.arg.dx # 0 \/ last.arg.dy # 0)

NamedIds == {last.arg.node_ids[at] : at \in 1..Len(last.arg.node_ids)}

Translated(node) ==
    [node EXCEPT !.x = node.x + last.arg.dx, !.y = node.y + last.arg.dy]

\* C30: move_nodes(g, node_ids, dx, dy) with dx or dy non-zero returns a
\* graph in which every node of g named in node_ids sits at exactly
\* (x + dx, y + dy), whatever the list (absent ids, an id listed more
\* than once), and in which all other nodes, all ports and all edges are
\* unchanged.
MoveNodesTranslatesNamedOnce ==
    MovedBy =>
        /\ Len(heap[last.output].nodes) = Len(last.given.nodes)
        /\ \A at \in 1..Len(last.given.nodes) :
               heap[last.output].nodes[at] =
                   IF last.given.nodes[at].id \in NamedIds
                   THEN Translated(last.given.nodes[at])
                   ELSE last.given.nodes[at]
        /\ heap[last.output].edges = last.given.edges


\* ---------------------------------------------------------------------
\* Routes that avoidance leaves alone.
\* ---------------------------------------------------------------------

SameRoute(route, other) ==
    /\ SameKindAndPath(route, other)
    /\ ("control" \in DOMAIN route) = ("control" \in DOMAIN other)
    /\ "control" \in DOMAIN route => route.control = other.control

\* The straight line between the anchors hits an effective obstacle.
BaseHits ==
    line_hits_obstacle(last.arg.from.position, last.arg.to.position,
                       EffectiveObstacles, FALSE, FALSE)

\* C31 as stated: when obstacles are supplied and the chosen path, line
\* or sampled curve, hits no effective obstacle, route_edge returns the
\* chosen route: same kind, same path, same control point.
ClearChosenRouteReturned ==
    (RouteReturned /\ Supplied # <<>> /\ ~ChosenHits) => SameRoute(last.route, ChosenRoute)

\* C31, amended: when obstacles are supplied and neither the chosen path
\* nor the straight line between the anchors hits an effective obstacle,
\* route_edge returns the chosen route: same kind, same path, same
\* control point.  A chosen curve that is clear is shifted all the same
\* when the straight line between the anchors hits an obstacle.
ClearOfPathAndLineReturned ==
    /\ (RouteReturned /\ Supplied # <<>> /\ ~ChosenHits /\ ~BaseHits) =>
           SameRoute(last.route, ChosenRoute)
    /\ (RouteReturned /\ Supplied # <<>> /\ ChosenRoute.kind = "quadratic"
            /\ ~ChosenHits /\ BaseHits) => last.tried > 0

ClearOfPathAndLineReturnedWitness ==
    /\ RouteReturned
    /\ Supplied # <<>>
    /\ EffectiveObstacles # <<>>
    /\ ChosenRoute.kind = "quadratic"
    /\ ~ChosenHits
    /\ ~BaseHits


\* ---------------------------------------------------------------------
\* Obstacles around an endpoint.
\* ---------------------------------------------------------------------

\* Obstacle number at of the call has a padded rectangle that holds the
\* from position or the to position.
HoldsEndpoint(at) == at \in 1..Len(Supplied) /\ AroundEndpoint(last.arg, at)

RoutedAsWithout(at) ==
    /\ last.without[at].returns
    /\ SameRoute(last.route, last.without[at].route)

\* C32 as stated: an obstacle whose padded rectangle holds the from
\* position or the to position is filtered out: the route returned is
\* the route of the call with that obstacle taken out of the list.
EndpointObstaclesFiltered ==
    RouteReturned => \A at \in 1..Len(Supplied) : HoldsEndpoint(at) => RoutedAsWithout(at)

\* C32, amended: the same when ignore_obstacle_ids is absent or empty.
\* With ids to ignore given, an obstacle around an endpoint is kept
\* unless its own id is listed.
EndpointObstaclesFilteredUnlessIdsGiven ==
    (RouteReturned /\ IgnoreIds = <<>>) =>
        \A at \in 1..Len(Supplied) : HoldsEndpoint(at) => RoutedAsWithout(at)

EndpointObstaclesFilteredUnlessIdsGivenWitness ==
    /\ RouteReturned
    /\ IgnoreIds = <<>>
    /\ Len(Supplied) = 2
    /\ HoldsEndpoint(2)
    /\ ~HoldsEndpoint(1)
    /\ last.tried > 0


\* ---------------------------------------------------------------------
\* Curvature 0.
\* ---------------------------------------------------------------------

ZeroCurvatureGiven ==
    /\ "curvature" \in DOMAIN last.arg.options
    /\ last.arg.options.curvature = Num(0)
    /\ Supplied = <<>>

\* C33 as stated: with options.curvature = 0 and no obstacles route_edge
\* returns the straight line from the from position to the to position
\* with metrics.curvature 0, whatever the positions and normals.
ZeroCurvatureGetsLine ==
    (RouteReturned /\ ZeroCurvatureGiven) => IsLineBetweenAnchors(last.route)

AverageAlignment == clamp01(over(plus(FromAlignment, ToAlignment), Num(2)))

DistanceFactor == clamp01(over(minus(DistanceGiven, Num(32)), Num(240)))

\* The curvature resolved from a base curvature of 0: the share of the
\* misalignment and the share of the distance.
ResolvedAtZero ==
    clamp01(plus(times(minus(Num(1), AverageAlignment), Rat(45, 100)),
                 times(DistanceFactor, Rat(2, 10))))

StraightAtZero ==
    \/ ResolvedAtZero = Num(0)
    \/ CloseAndAligned
    \/ at_most(Rat(9, 10), AverageAlignment) /\ less(ResolvedAtZero, Rat(15, 100))

\* What the code does at a base curvature of 0 with no obstacles: the
\* straight line when the distance is 0, the resolved curvature is 0,
\* the anchors are close and aligned, or the average alignment is at
\* least 0.9 and the resolved curvature is below 0.15; a quadratic curve
\* with the resolved curvature in every other case.
ZeroCurvatureResolves ==
    (RouteReturned /\ ZeroCurvatureGiven) =>
        IF DistanceGiven = Num(0) \/ StraightAtZero
        THEN IsLineBetweenAnchors(last.route)
        ELSE /\ last.route.kind = "quadratic"
             /\ last.route.metrics.curvature = ResolvedAtZero
             /\ less(Num(0), ResolvedAtZero)

FacingFarApartGetCurve ==
    /\ RouteReturned
    /\ ZeroCurvatureGiven
    /\ DistanceGiven = Num(272)
    /\ FromAlignment = Num(1)
    /\ ToAlignment = Num(1)
    /\ last.route.kind = "quadratic"

(***************************************************************************)
(* The node layer of the React renderer, Graph_node_layer: the pointer     *)
(* handlers of a node drag and of a port connection.  Coordinates are not  *)
(* modelled: a drag payload is its node ids, an endpoint is its node and   *)
(* its port, a preview is its source and its target.  React state that     *)
(* only feeds rendering (dragging_ids, connection_preview) is left out.    *)
(***************************************************************************)
MaxPointers == 2    \* pointer ids in use at once
MaxEvents == 5      \* pointer events one run delivers to the layer

Pointers == 1 .. MaxPointers

\* event.button: 0 is the main button.
Buttons == {0, 2}

port_o == [id |-> "o", kind |-> "out"]
port_i == [id |-> "i", kind |-> "in"]
port_j == [id |-> "j", kind |-> "in"]
layer_node_m == [id |-> "m", ports |-> <<port_o, port_i>>]
layer_node_n == [id |-> "n", ports |-> <<port_j>>]

\* The props the layer is mounted with: its nodes and the selected ids, in
\* the order the Set iterates.
LayerProps ==
    { [nodes |-> <<layer_node_m, layer_node_n>>, selected_ids |-> selected_ids] :
        selected_ids \in {<<>>, <<"n", "m">>, <<"x">>} }

node_lookup(props) == { props.nodes[i].id : i \in 1 .. Len(props.nodes) }

selection_has(ids, id) == \E i \in 1 .. Len(ids) : ids[i] = id

\* Graph_connection_endpoint, without its position.
connection_endpoint(node, port) == [node |-> node, port |-> port]

PortsOf(props) ==
    UNION { { connection_endpoint(props.nodes[i], props.nodes[i].ports[k]) :
                k \in 1 .. Len(props.nodes[i].ports) } : i \in 1 .. Len(props.nodes) }

\* The refs of the layer and the callbacks it has called.
Layer ==
    [drag_ref |-> drag_ref, connection_ref |-> connection_ref,
     hover_port_ref |-> hover_port_ref, preview_ref |-> preview_ref,
     listeners_ref |-> listeners_ref, emitted |-> emitted]

Called(layer, call) == [layer EXCEPT !.emitted = Append(@, call)]

update_connection_preview(layer, preview) ==
    Called([layer EXCEPT !.preview_ref = preview],
           [callback |-> "on_connection_preview", preview |-> preview])

finish_connection(layer, target) ==
    LET runtime == layer.connection_ref
        cleared ==
            update_connection_preview(
                [layer EXCEPT !.listeners_ref = null, !.connection_ref = null,
                              !.hover_port_ref = null],
                null)
    IN  IF runtime = null
        THEN cleared
        ELSE IF target # null
        THEN Called(cleared, [callback |-> "on_connection_complete",
                              from |-> runtime.from, to |-> target])
        ELSE Called(cleared, [callback |-> "on_connection_cancel",
                              from |-> runtime.from])

\* What a handler of pointer-down leaves: the layer, and whether it stopped
\* the propagation of the event.
Propagates(layer) == [layer |-> layer, stopped |-> FALSE]

Stops(layer) == [layer |-> layer, stopped |-> TRUE]

\* A plausible slip: a connection starts from a port of any kind.
start_connection_from_any_port(layer, node, port, e) ==
    IF layer.connection_ref # null
    THEN Propagates(layer)
    ELSE LET endpoint == connection_endpoint(node, port)
             started ==
                 [layer EXCEPT !.connection_ref = [pointer_id |-> e.pointer_id, from |-> endpoint],
                               !.hover_port_ref = null]
             previewed == update_connection_preview(started, [from |-> endpoint, target |-> null])
         IN  Stops([previewed EXCEPT !.listeners_ref = [pointer_id |-> e.pointer_id]])

\* The listeners installed on pointer_host are the closures over pointer_id.
start_connection(layer, node, port, e) ==
    IF port.kind # "out"
    THEN Propagates(layer)
    ELSE IF layer.connection_ref # null
    THEN Propagates(layer)
    ELSE LET endpoint == connection_endpoint(node, port)
             started ==
                 [layer EXCEPT !.connection_ref = [pointer_id |-> e.pointer_id, from |-> endpoint],
                               !.hover_port_ref = null]
             previewed == update_connection_preview(started, [from |-> endpoint, target |-> null])
         IN  Stops([previewed EXCEPT !.listeners_ref = [pointer_id |-> e.pointer_id]])

handle_move(layer, pointer_id, native_event) ==
    IF native_event.pointer_id # pointer_id
    THEN layer
    ELSE IF layer.preview_ref = null
    THEN layer
    ELSE update_connection_preview(layer, layer.preview_ref)

handle_up(layer, pointer_id, native_event) ==
    IF native_event.pointer_id # pointer_id
    THEN layer
    ELSE LET target == layer.hover_port_ref
             valid_target == IF target # null /\ target.port.kind = "in" THEN target ELSE null
         IN  finish_connection(layer, valid_target)

handle_cancel(layer, pointer_id, native_event) ==
    IF native_event.pointer_id # pointer_id
    THEN layer
    ELSE finish_connection(layer, null)

handle_port_pointer_down(layer, node, port, e) ==
    IF e.button # 0
    THEN Propagates(layer)
    ELSE start_connection(layer, node, port, e)

\* A plausible slip: the port entered is recorded whatever its kind.
handle_port_pointer_enter_of_any_kind(layer, node, port) ==
    IF layer.connection_ref = null
    THEN layer
    ELSE LET runtime == layer.connection_ref
             next_target == connection_endpoint(node, port)
             current_preview == layer.preview_ref
         IN  IF runtime.from.node.id = node.id /\ runtime.from.port.id = port.id
             THEN layer
             ELSE IF current_preview # null
             THEN update_connection_preview([layer EXCEPT !.hover_port_ref = next_target],
                                            [current_preview EXCEPT !.target = next_target])
             ELSE [layer EXCEPT !.hover_port_ref = next_target]

handle_port_pointer_enter(layer, node, port) ==
    IF layer.connection_ref = null
    THEN layer
    ELSE IF port.kind # "in"
    THEN LET current_preview == layer.preview_ref
             untargeted ==
                 IF current_preview # null /\ current_preview.target # null
                 THEN update_connection_preview(layer, [current_preview EXCEPT !.target = null])
                 ELSE layer
         IN  [untargeted EXCEPT !.hover_port_ref = null]
    ELSE LET runtime == layer.connection_ref
             next_target == connection_endpoint(node, port)
             current_preview == layer.preview_ref
         IN  IF runtime.from.node.id = node.id /\ runtime.from.port.id = port.id
             THEN layer
             ELSE IF current_preview # null
             THEN update_connection_preview([layer EXCEPT !.hover_port_ref = next_target],
                                            [current_preview EXCEPT !.target = next_target])
             ELSE [layer EXCEPT !.hover_port_ref = next_target]

handle_port_pointer_leave(layer, node, port) ==
    IF layer.connection_ref = null
    THEN layer
    ELSE LET target == layer.hover_port_ref
             current_preview == layer.preview_ref
         IN  IF target = null
             THEN layer
             ELSE IF target.node.id # node.id \/ target.port.id # port.id
             THEN layer
             ELSE IF current_preview # null /\ current_preview.target # null
             THEN update_connection_preview([layer EXCEPT !.hover_port_ref = null],
                                            [current_preview EXCEPT !.target = null])
             ELSE [layer EXCEPT !.hover_port_ref = null]

\* The cleanup of the effect that runs when the layer unmounts.
unmount(layer) ==
    [layer EXCEPT !.listeners_ref = null, !.connection_ref = null,
                  !.hover_port_ref = null, !.preview_ref = null]

drag_callback(phase) ==
    CASE phase = "start" -> "on_drag_start"
      [] phase = "move" -> "on_drag"
      [] OTHER -> "on_drag_end"

\* The payload's node_ids are the keys of the positions, the drag's targets.
emit_drag_event(layer, phase) ==
    LET drag == layer.drag_ref
    IN  IF drag = null
        THEN layer
        ELSE Called(layer, [callback |-> drag_callback(phase), node_ids |-> drag.target_ids])

end_drag(layer) == [layer EXCEPT !.drag_ref = null]

handle_pointer_down(layer, props, node, e) ==
    IF e.button # 0
    THEN layer
    ELSE IF layer.drag_ref # null
    THEN layer
    ELSE LET selected ==
                 IF selection_has(props.selected_ids, node.id)
                 THEN SelectSeq(props.selected_ids, LAMBDA id : id \in node_lookup(props))
                 ELSE <<>>
             target_ids ==
                 IF selected # <<>>
                 THEN selected
                 ELSE IF node.id \in node_lookup(props) THEN <<node.id>> ELSE <<>>
             pressed == Called(layer, [callback |-> "on_node_pointer_down", node |-> node])
         IN  IF target_ids = <<>>
             THEN layer
             ELSE emit_drag_event(
                      [pressed EXCEPT !.drag_ref = [pointer_id |-> e.pointer_id,
                                                    target_ids |-> target_ids]],
                      "start")

\* A plausible slip: the move of any pointer moves the drag.
handle_pointer_move_of_any_pointer(layer, e) ==
    LET drag == layer.drag_ref
    IN  IF drag = null
        THEN layer
        ELSE emit_drag_event(layer, "move")

handle_pointer_move(layer, e) ==
    LET drag == layer.drag_ref
    IN  IF drag = null \/ drag.pointer_id # e.pointer_id
        THEN layer
        ELSE emit_drag_event(layer, "move")

handle_pointer_up(layer, e) ==
    LET drag == layer.drag_ref
    IN  IF drag = null \/ drag.pointer_id # e.pointer_id
        THEN layer
        ELSE end_drag(emit_drag_event(layer, "end"))

handle_pointer_cancel(layer, e) ==
    LET drag == layer.drag_ref
    IN  IF drag = null \/ drag.pointer_id # e.pointer_id
        THEN layer
        ELSE end_drag(emit_drag_event(layer, "end"))

\* The listeners on pointer_host receive every pointer event that reaches
\* the window, after the handlers of the node the event went through.
on_host(layer, e) ==
    IF layer.listeners_ref = null
    THEN layer
    ELSE CASE e.type = "pointermove" -> handle_move(layer, layer.listeners_ref.pointer_id, e)
           [] e.type = "pointerup" -> handle_up(layer, layer.listeners_ref.pointer_id, e)
           [] OTHER -> handle_cancel(layer, layer.listeners_ref.pointer_id, e)

on_node(layer, e) ==
    IF e.node = null
    THEN layer
    ELSE CASE e.type = "pointermove" -> handle_pointer_move(layer, e)
           [] e.type = "pointerup" -> handle_pointer_up(layer, e)
           [] OTHER -> handle_pointer_cancel(layer, e)

(***************************************************************************)
(* The layer under the pointer events of its page.                         *)
(***************************************************************************)
Mounted == [type |-> "mount", pointer_id |-> 0, button |-> 0, node |-> null,
            port |-> null, count |-> 0]

PointerEvent(type, pointer_id, button, node, port) ==
    [type |-> type, pointer_id |-> pointer_id, button |-> button, node |-> node,
     port |-> port, count |-> event.count + 1]

InitLayer ==
    /\ heap = <<create_graph>>
    /\ counters = EmptyMap
    /\ graph = 1
    /\ \E props \in LayerProps : last = [op |-> "mounted", arg |-> props]
    /\ NoSession
    /\ NoSelection
    /\ drag_ref = null
    /\ connection_ref = null
    /\ hover_port_ref = null
    /\ preview_ref = null
    /\ listeners_ref = null
    /\ emitted = <<>>
    /\ event = Mounted
    /\ hovered = {}

Delivers ==
    /\ event.type # "unmount"
    /\ event.count < MaxEvents

Handled(layer, e) ==
    /\ drag_ref' = layer.drag_ref
    /\ connection_ref' = layer.connection_ref
    /\ hover_port_ref' = layer.hover_port_ref
    /\ preview_ref' = layer.preview_ref
    /\ listeners_ref' = layer.listeners_ref
    /\ emitted' = layer.emitted
    /\ event' = e
    /\ UNCHANGED <<heap, counters, graph, last>>
    /\ UNCHANGED hvars
    /\ UNCHANGED svars

\* A pointer goes down on the surface of a node.
NodePointerDown(node, pointer_id, button) ==
    /\ Delivers
    /\ LET e == PointerEvent("pointerdown", pointer_id, button, node, null)
       IN  Handled(handle_pointer_down(Layer, last.arg, node, e), e)
    /\ UNCHANGED hovered

\* A pointer goes down on a port: the event reaches the node of the port
\* unless the port's handler stopped it.
PortPointerDown(at, pointer_id, button) ==
    /\ Delivers
    /\ LET e == PointerEvent("pointerdown", pointer_id, button, at.node, at.port)
           on_port == handle_port_pointer_down(Layer, at.node, at.port, e)
       IN  Handled(IF on_port.stopped
                   THEN on_port.layer
                   ELSE handle_pointer_down(on_port.layer, last.arg, at.node, e), e)
    /\ UNCHANGED hovered

\* A pointer moves, goes up or is cancelled, over a node or elsewhere.
PointerMoves(type, node, pointer_id) ==
    /\ Delivers
    /\ LET e == PointerEvent(type, pointer_id, 0, node, null)
       IN  Handled(on_host(on_node(Layer, e), e), e)
    /\ UNCHANGED hovered

PortPointerEnter(at) ==
    /\ Delivers
    /\ at \notin hovered
    /\ hovered' = hovered \cup {at}
    /\ Handled(handle_port_pointer_enter(Layer, at.node, at.port),
               PointerEvent("pointerenter", 0, 0, at.node, at.port))

PortPointerLeave(at) ==
    /\ Delivers
    /\ at \in hovered
    /\ hovered' = hovered \ {at}
    /\ Handled(handle_port_pointer_leave(Layer, at.node, at.port),
               PointerEvent("pointerleave", 0, 0, at.node, at.port))

Unmount ==
    /\ event.type # "unmount"
    /\ Handled(unmount(Layer), [Mounted EXCEPT !.type = "unmount", !.count = event.count])
    /\ UNCHANGED hovered

LayerNodesOf(props) == { props.nodes[i] : i \in 1 .. Len(props.nodes) }

NextLayer ==
    \/ \E node \in LayerNodesOf(last.arg), pointer_id \in Pointers, button \in Buttons :
           NodePointerDown(node, pointer_id, button)
    \/ \E at \in PortsOf(last.arg), pointer_id \in Pointers, button \in Buttons :
           PortPointerDown(at, pointer_id, button)
    \/ \E type \in {"pointermove", "pointerup", "pointercancel"},
          node \in LayerNodesOf(last.arg) \cup {null}, pointer_id \in Pointers :
           PointerMoves(type, node, pointer_id)
    \/ \E at \in PortsOf(last.arg) : PortPointerEnter(at)
    \/ \E at \in PortsOf(last.arg) : PortPointerLeave(at)
    \/ Unmount

SpecLayer == InitLayer /\ [][NextLayer]_vars


(***************************************************************************)
(* The callbacks of a node drag.                                           *)
(***************************************************************************)
is_drag_callback(call) == call.callback \in {"on_drag_start", "on_drag", "on_drag_end"}

\* The names of the drag callbacks called so far, oldest first.
DragCallbacks(calls) ==
    LET drag_calls == SelectSeq(calls, is_drag_callback)
    IN  [i \in 1 .. Len(drag_calls) |-> drag_calls[i].callback]

\* A beginning of repetitions of one on_drag_start, any number of on_drag and
\* one on_drag_end.
Repetitions(names) ==
    \A i \in 1 .. Len(names) :
        IF names[i] = "on_drag_start"
        THEN i = 1 \/ names[i - 1] = "on_drag_end"
        ELSE i > 1 /\ names[i - 1] \in {"on_drag_start", "on_drag"}

DragIsOpen(names) == names # <<>> /\ names[Len(names)] # "on_drag_end"

PointerGoesDown == event'.type = "pointerdown"

PointerContinues == event'.type \in {"pointermove", "pointerup", "pointercancel"}

NoDragCallback == DragCallbacks(emitted') = DragCallbacks(emitted)

\* C34: whatever pointer events reach the layer, with whatever pointer ids,
\* the drag callbacks called so far are a beginning of repetitions of one
\* on_drag_start, any number of on_drag and one on_drag_end, the last
\* repetition being open exactly while a drag is in progress; a pointer-down
\* while a drag is in progress starts nothing, and a move, up or cancel of a
\* pointer other than the dragging one calls no drag callback.
DragCallbacksFormRepetitions ==
    /\ [](/\ Repetitions(DragCallbacks(emitted))
          /\ DragIsOpen(DragCallbacks(emitted)) <=> drag_ref # null)
    /\ [][/\ (drag_ref # null /\ PointerGoesDown) => (NoDragCallback /\ drag_ref' = drag_ref)
          /\ (drag_ref # null /\ PointerContinues /\ event'.pointer_id # drag_ref.pointer_id)
                 => (NoDragCallback /\ drag_ref' = drag_ref)
          /\ (drag_ref = null /\ PointerContinues) => NoDragCallback]_vars

\* A second drag is open after a first one moved and ended, and the move of
\* another pointer has just been delivered to a node.
DragCallbacksFormRepetitionsWitness ==
    /\ DragCallbacks(emitted) = <<"on_drag_start", "on_drag", "on_drag_end", "on_drag_start">>
    /\ drag_ref # null
    /\ event.type = "pointermove"
    /\ event.node # null
    /\ event.pointer_id # drag_ref.pointer_id


(***************************************************************************)
(* The callbacks of a port connection.                                     *)
(***************************************************************************)
is_terminal(call) == call.callback \in {"on_connection_complete", "on_connection_cancel"}

Terminals(calls) == SelectSeq(calls, is_terminal)

\* The terminal callbacks the step calls.
NewTerminals ==
    SubSeq(Terminals(emitted'), Len(Terminals(emitted)) + 1, Len(Terminals(emitted')))

Completed(from, to) == [callback |-> "on_connection_complete", from |-> from, to |-> to]

Cancelled(from) == [callback |-> "on_connection_cancel", from |-> from]

\* The step starts a connection.
ConnectionStarts == connection_ref' # null /\ connection_ref' # connection_ref

\* The pointer of the connection in progress goes up.
ConnectionPointerUp ==
    /\ connection_ref # null
    /\ event'.type = "pointerup"
    /\ event'.pointer_id = connection_ref.pointer_id

\* A pointer is over a port of kind in.
HoversIn == \E at \in hovered : at.port.kind = "in"

\* Every on_connection_complete called so far goes from an out port to an in port.
CompletedOutToIn ==
    \A i \in 1 .. Len(emitted) :
        emitted[i].callback = "on_connection_complete"
            => emitted[i].from.port.kind = "out" /\ emitted[i].to.port.kind = "in"

\* A step calls at most one terminal callback, and only one that ends the
\* connection in progress.
AtMostOneTerminal ==
    /\ Len(NewTerminals) <= 1
    /\ Len(NewTerminals) = 1
           => /\ connection_ref # null
              /\ connection_ref' = null
              /\ NewTerminals[1].from = connection_ref.from
              /\ event'.type \in {"pointerup", "pointercancel"}
              /\ event'.pointer_id = connection_ref.pointer_id

\* C39 as stated: a connection starts only from an out port while neither a
\* drag nor a connection is in progress, it calls at most one terminal
\* callback, the pointer-up of its pointer calls on_connection_complete if
\* and only if a port of kind in is hovered and on_connection_cancel
\* otherwise, and every on_connection_complete goes from an out port to an
\* in port.
ConnectionCompletesOnHoveredInPort ==
    /\ []CompletedOutToIn
    /\ [][/\ ConnectionStarts
              => /\ event'.port # null
                 /\ event'.port.kind = "out"
                 /\ connection_ref = null
                 /\ drag_ref = null
          /\ AtMostOneTerminal
          /\ ConnectionPointerUp
              => /\ Len(NewTerminals) = 1
                 /\ NewTerminals[1].callback = "on_connection_complete" <=> HoversIn]_vars

\* The target the layer holds is a port of kind in that a pointer entered
\* while the connection was in progress and has not left.
HoverTargetIsHoveredInPort ==
    hover_port_ref # null
        => /\ connection_ref # null
           /\ hover_port_ref.port.kind = "in"
           /\ hover_port_ref \in hovered

\* C39, amended: a connection starts only by the main button going down on
\* an out port while no other connection is in progress (a node drag in
\* progress does not prevent it); it calls at most one terminal callback;
\* the pointer-up of its pointer calls on_connection_complete with the
\* target the layer holds, if it holds one, and on_connection_cancel
\* otherwise; the target held is always a port of kind in that a pointer
\* entered during the connection and has not left; every
\* on_connection_complete goes from an out port to an in port.
ConnectionCompletesOnHoverTarget ==
    /\ []CompletedOutToIn
    /\ []HoverTargetIsHoveredInPort
    /\ [][/\ ConnectionStarts
              => /\ event'.type = "pointerdown"
                 /\ event'.button = 0
                 /\ event'.port # null
                 /\ event'.port.kind = "out"
                 /\ connection_ref = null
                 /\ connection_ref' = [pointer_id |-> event'.pointer_id,
                                       from |-> connection_endpoint(event'.node, event'.port)]
          /\ AtMostOneTerminal
          /\ ConnectionPointerUp
              => NewTerminals =
                     <<IF hover_port_ref # null
                       THEN Completed(connection_ref.from, hover_port_ref)
                       ELSE Cancelled(connection_ref.from)>>]_vars

\* A connection that started while a node drag was in progress has just
\* been completed on the port its pointer was over, the drag still going on.
ConnectionCompletesOnHoverTargetWitness ==
    /\ emitted # <<>>
    /\ emitted[Len(emitted)].callback = "on_connection_complete"
    /\ emitted[Len(emitted)].to \in hovered
    /\ event.type = "pointerup"
    /\ drag_ref # null
    /\ drag_ref.pointer_id # event.pointer_id
    /\ \E i \in 1 .. Len(emitted) :
           /\ emitted[i].callback = "on_drag_start"
           /\ \E k \in i + 1 .. Len(emitted) :
                  /\ emitted[k].callback = "on_connection_preview"
                  /\ \A l \in i + 1 .. k : emitted[l].callback # "on_drag_end"


(***************************************************************************)
(* The edges of the graphs the graph operations reach.                     *)
(***************************************************************************)
\* The endpoint names a port of the kind given on a node of graph g.
EndpointResolves(g, endpoint, kind) ==
    /\ map_has(g.nodes, endpoint.node_id)
    /\ LET node == map_get(g.nodes, endpoint.node_id)
           port == find_port(node, endpoint.port_id)
       IN  /\ port # 0
           /\ node.ports[port].kind = kind

\* C35: in the graph the caller holds after any successful graph
\* operations, each edge's from endpoint names an existing out port of an
\* existing node and its to endpoint names an existing in port of an
\* existing node.
EdgesNamePorts ==
    \A at \in DOMAIN heap[graph].edges :
        /\ EndpointResolves(heap[graph], heap[graph].edges[at].from, "out")
        /\ EndpointResolves(heap[graph], heap[graph].edges[at].to, "in")

\* C36: in the graph the caller holds after any successful graph
\* operations, and in every graph an operation returned, the node ids of
\* each edge's endpoints are ids of nodes of that graph.
EdgesNameNodes ==
    \A ref \in {graph} \cup (IF last.err = "none" /\ last.output # NoRef THEN {last.output} ELSE {}) :
        \A at \in DOMAIN heap[ref].edges :
            /\ map_has(heap[ref].nodes, heap[ref].edges[at].from.node_id)
            /\ map_has(heap[ref].nodes, heap[ref].edges[at].to.node_id)

\* remove_node has just removed a node that an edge named, from a graph
\* that holds another node.
EdgesNameNodesWitness ==
    /\ last.op = "remove_node"
    /\ last.output = graph
    /\ \E at \in DOMAIN last.given.edges : edge_touches(last.given.edges[at], last.arg)
    /\ heap[graph].nodes # <<>>

\* C37: a connect call that fails leaves the counters of the id generator
\* as they were before the call, so that the next gen_id('e') returns what
\* peek_id('e') showed before the call.
FailedConnectKeepsCounters ==
    (last.op = "connect" /\ last.err # "none")
        => /\ counters = last.counters
           /\ gen_id(counters, <<"e">>).id = last.peek


(***************************************************************************)
(* The current graph of the command-entry history and its stacks.          *)
(***************************************************************************)
TopUndo == hist.undo_stack[Len(hist.undo_stack)]

TopRedo == hist.redo_stack[Len(hist.redo_stack)]

\* C38: in the command-entry history, whatever execute_command, undo and
\* redo calls were made with the stock commands, the current graph is
\* structurally equal to the graph_after of the top entry of a non-empty
\* undo stack and to the graph_before of the top entry of a non-empty redo
\* stack.
CurrentGraphMatchesStacks ==
    hist # NoHistory =>
        /\ hist.undo_stack # <<>> => SameGraph(heap[hist.graph], heap[TopUndo.graph_after])
        /\ hist.redo_stack # <<>> => SameGraph(heap[hist.graph], heap[TopRedo.graph_before])


====
